---- MODULE Spec2Model ----
(***************************************************************************)
(* Model of the CLI execution and detection layer of the Spec Kit VS Code  *)
(* extension (src/src/services/specifyCliService.ts):                      *)
(*   - SpecKitCliService.runCommandWithPath : the spawn-based runner       *)
(*   - SpecKitCliService.findCliPath/testCliPath : locating the CLI        *)
(*   - SpecifyCliService.detectCli/executeCommand/run*/clearCache          *)
(*   - SpecKitCliService.getProjectStatus : the status cache slot          *)
(***************************************************************************)
EXTENDS Integers, Sequences, FiniteSets, TLC

\* ------------------------------------------------------------------------
\* Bounds of the model
\* ------------------------------------------------------------------------
MaxChunks == 2
MaxTicks == 3
MaxTimeoutSec == 2
MaxCalls == 2
MaxDetects == 2
MaxClockTicks == 3
MaxRawLen == 3
MaxFragments == 3
MaxLines == 3
MaxCommands == 2
MaxStatusCalls == 2
MaxStatusTicks == 7
MaxFsChanges == 2
MaxRawEvents == 2
MaxWatcherTicks == 3
MaxRootChanges == 3
MaxRestarts == 1

\* ------------------------------------------------------------------------
\* Program constants
\* ------------------------------------------------------------------------
MsPerSecond == 1000
SpawnErrno == -2

\* An exit code is <<n>>; <<>> is the null code of a child ended by a signal.
NullCode == <<>>

\* maxBuffer: 10 * 1024 * 1024 (SpecifyCliService.executeCommand)
maxBuffer == 10 * 1024 * 1024

\* Chunks a child can write: "a" is a short line, "B" a 6MB block.
Chunks == {"a", "B"}
ChunkBytes(c) == IF c = "B" THEN 6 * 1024 * 1024 ELSE 1

RECURSIVE Bytes(_)
Bytes(s) == IF s = <<>> THEN 0 ELSE ChunkBytes(Head(s)) + Bytes(Tail(s))

Timeouts == {k * MsPerSecond : k \in 1..MaxTimeoutSec}
ExitCodes == {<<0>>, <<1>>, NullCode}

VARIABLES
    \* --- one call of SpecKitCliService.runCommandWithPath ---
    child,        \* "none" | "failed" | "errored" | "running" | "exited" | "closed"
    spawnFailed,  \* the spawn of this call failed at the OS level
    childKilled,  \* child.kill() has been called
    exitCode,     \* the code 'close' will carry
    isResolved,   \* the guard flag
    timeoutId,    \* "none" | "armed" | "cleared" | "fired"
    timeout,      \* the timeout argument (ms)
    elapsed,      \* ms since spawn
    stdout,       \* accumulated chunks
    stderr,
    resolveLog,   \* every value passed to resolve(), in order
    eventLog,     \* completion events in the order their handlers ran
    calls,        \* number of calls started
    \* --- environment and state of SpecKitCliService.findCliPath ---
    platform,     \* process.platform: "win32" or "posix"
    homeSet,      \* USERPROFILE (win32) / HOME is defined
    cliPath,      \* this.cliPath: the configured path, or 'specify-cn'
    exists,       \* paths for which fs.access succeeds
    runs,         \* commands whose '--help' run through the runner succeeds
    cmdOk,        \* win32: 'cmd /c <cliPath> --help' succeeds
    psOk,         \* win32: 'powershell -Command <cliPath> --help' succeeds
    foundPath,    \* what the last findCliPath returned ("" before any call)
    probeLog,     \* the probes of the last findCliPath, in order
    \* --- SpecifyCliService: detection cache, its environment, its calls ---
    now,            \* Date.now() (ms)
    detectionCache, \* <<>> (null) or <<result>>
    cacheExpiry,
    customPath,     \* config 'spec-kit.cliPath' ("" when not configured)
    onDisk,         \* fs.stat(customPath) succeeds
    onPath,         \* which.sync('specify-cn'): a path, "" (falsy) or "throws"
    versionRun,     \* the '--version' run: "fail", or the text it prints
    inflight,       \* calls awaiting their detection or their command
    callLog,        \* completed calls, in order of completion
    nextId,         \* number of calls started
    cacheGen,       \* number of cacheResult() calls so far
    cachedAt,       \* when the current cache entry was stored (-1: none)
    lastOp,         \* "clearCache" right after a clearCache(), else "other"
    \* --- SpecKitCliService: the status cache slot ---
    statusCache,    \* <<>> (null) or <<[status, timestamp]>>
    workspaceRoot,  \* workspaceFolders[0] ("" when no folder is open)
    markers,        \* which of the four marker directories exist
    constitutionSize, \* bytes of memory/constitution.md (-1: no such file)
    firstSpecDir,   \* <<>> (no specs entry) or <<files of specs' first entry>>
    lastStatus,     \* <<>> or <<the status the last getProjectStatus returned>>
    specsDirExists, \* .specify/specs exists
    fsErrors,       \* the sub-checks whose file system call fails with an error
    fsGen,          \* number of changes made to the project files so far
    statusCalls,    \* getProjectStatus calls awaiting the race
    statusLog,      \* finished getProjectStatus calls, in order of completion
    statusNextId,   \* number of getProjectStatus calls started
    \* --- SpecKitCliService.stripAnsi and the version extraction ---
    text,           \* the raw text a child process printed
    scenario,       \* the lines text was composed from (<<>>: arbitrary text)
    pass1,          \* <<>> or <<stripAnsi(text)>>
    pass2,          \* <<>> or <<stripAnsi(stripAnsi(text))>>
    versionOut,     \* <<>> or <<what getCliVersion() returned for text>>
    \* --- SpecKitCliService: the commands run for a collaborator ---
    method,         \* the method of the last command ("" before any)
    spawns,         \* child processes spawned for the last command
    returned,       \* <<>> or <<the CliCommandResult the last command returned>>
    commands,       \* number of commands run
    \* --- FileWatcherService ---
    wsFolder,        \* vscode.workspace.workspaceFolders[0]
    rootDirs,        \* the folders that hold a .specify directory
    watcherRoot,     \* this.workspaceRoot ("" while undefined)
    watchers,        \* this.watchers: the watches created, live or disposed
    disposables,     \* this.disposables: live onDidChangeWorkspaceFolders listeners
    emitterDisposed, \* changeEventEmitter.dispose() has been called
    listeners,       \* the listeners changeEventEmitter delivers to
    subscribers,     \* the onDidChange subscriptions made: [listener, restarts so far]
    debounceTimer,   \* this.debounceTimer: <<>> or <<id of the timer set last>>
    timers,          \* the armed debounce timers
    pendingChanges,  \* this.pendingChanges, in insertion order
    pendingStats,    \* watchSpecifyDirectory calls awaiting fs.stat
    statSeq,         \* number of watchSpecifyDirectory calls started
    rawLog,          \* the raw file system events handled, in order
    flushes,         \* number of times pendingChanges was emptied
    fireLog,         \* the calls of changeEventEmitter.fire, in order
    rootChanges,     \* number of creations and removals of .specify
    restarts,        \* number of restart() calls
    disposed         \* <<>>, or <<Len(fireLog)>> as it was when dispose() was called

runnerVars == <<child, spawnFailed, childKilled, exitCode, isResolved, timeoutId, timeout,
                elapsed, stdout, stderr, resolveLog, eventLog, calls>>

locatorVars == <<platform, homeSet, cliPath, exists, runs, cmdOk, psOk, foundPath, probeLog>>

detectEnv == <<customPath, onDisk, onPath, versionRun>>

detectVars == <<now, detectionCache, cacheExpiry, detectEnv, inflight, callLog, nextId,
                cacheGen, cachedAt, lastOp>>

projectFs == <<workspaceRoot, markers, constitutionSize, firstSpecDir, specsDirExists,
               fsErrors, fsGen>>

statusVars == <<statusCache, projectFs, lastStatus, statusCalls, statusLog, statusNextId>>

sanitizerVars == <<text, scenario, pass1, pass2, versionOut>>

commandVars == <<method, spawns, returned, commands>>

watcherVars == <<wsFolder, rootDirs, watcherRoot, watchers, disposables, emitterDisposed,
                 listeners, subscribers, debounceTimer, timers, pendingChanges,
                 pendingStats, statSeq, rawLog, flushes, fireLog, rootChanges, restarts,
                 disposed>>

vars == <<runnerVars, locatorVars, detectVars, statusVars, sanitizerVars, commandVars,
          watcherVars>>

\* ------------------------------------------------------------------------
\* SpecKitCliService.runCommandWithPath
\* ------------------------------------------------------------------------
TimeoutMessage(t) == [kind |-> "timeout", seconds |-> t \div MsPerSecond, text |-> <<>>]
StderrMessage(s) == [kind |-> "stderr", seconds |-> 0, text |-> s]
SpawnMessage == [kind |-> "spawn", seconds |-> 0, text |-> <<>>]

TimeoutResult ==
    [success |-> FALSE, output |-> stdout, error |-> TimeoutMessage(timeout), exitCode |-> -1]

\* exitCode: code || 0
CloseResult(code) ==
    [success |-> (code = <<0>>), output |-> stdout, error |-> StderrMessage(stderr),
     exitCode |-> IF code = NullCode THEN 0 ELSE code[1]]

ErrorResult ==
    [success |-> FALSE, output |-> <<>>, error |-> SpawnMessage, exitCode |-> -1]

RunnerIdle ==
    /\ child = "none" /\ spawnFailed = FALSE /\ childKilled = FALSE /\ exitCode = NullCode
    /\ isResolved = FALSE /\ timeoutId = "none" /\ timeout = 0 /\ elapsed = 0
    /\ stdout = <<>> /\ stderr = <<>> /\ resolveLog = <<>> /\ eventLog = <<>>

\* spawn(...) and setTimeout(..., timeout); the spawn either starts the child
\* or fails at the OS level (the 'error' event is then queued for the next tick).
RunCommandWithPath(t, ok) ==
    /\ child \in {"none", "closed"}
    /\ calls < MaxCalls
    /\ calls' = calls + 1
    /\ child' = IF ok THEN "running" ELSE "failed"
    /\ spawnFailed' = ~ok
    /\ childKilled' = FALSE
    /\ exitCode' = NullCode
    /\ isResolved' = FALSE
    /\ timeoutId' = "armed"
    /\ timeout' = t
    /\ elapsed' = 0
    /\ stdout' = <<>>
    /\ stderr' = <<>>
    /\ resolveLog' = <<>>
    /\ eventLog' = <<>>

\* child.stdout.on('data')
StdoutData(c) ==
    /\ child \in {"running", "exited"}
    /\ Len(stdout) + Len(stderr) < MaxChunks
    /\ stdout' = Append(stdout, c)
    /\ UNCHANGED <<child, spawnFailed, childKilled, exitCode, isResolved, timeoutId, timeout,
                   elapsed, stderr, resolveLog, eventLog, calls>>

\* child.stderr.on('data')
StderrData(c) ==
    /\ child \in {"running", "exited"}
    /\ Len(stdout) + Len(stderr) < MaxChunks
    /\ stderr' = Append(stderr, c)
    /\ UNCHANGED <<child, spawnFailed, childKilled, exitCode, isResolved, timeoutId, timeout,
                   elapsed, stdout, resolveLog, eventLog, calls>>

\* The child process ends (on its own, or by the signal kill() sent).
ChildExit(code) ==
    /\ child = "running"
    /\ child' = "exited"
    /\ exitCode' = code
    /\ UNCHANGED <<spawnFailed, childKilled, isResolved, timeoutId, timeout, elapsed, stdout,
                   stderr, resolveLog, eventLog, calls>>

\* Mutant: the timeout callback reports the timeout but forgets child.kill().
OnTimeoutNoKill ==
    /\ timeoutId = "armed"
    /\ elapsed >= timeout
    /\ timeoutId' = "fired"
    /\ eventLog' = Append(eventLog, "timeout")
    /\ IF ~isResolved
       THEN /\ isResolved' = TRUE
            /\ resolveLog' = Append(resolveLog, TimeoutResult)
       ELSE UNCHANGED <<isResolved, resolveLog>>
    /\ UNCHANGED <<child, spawnFailed, childKilled, exitCode, timeout, elapsed, stdout,
                   stderr, calls>>

\* setTimeout callback
OnTimeout ==
    /\ timeoutId = "armed"
    /\ elapsed >= timeout
    /\ timeoutId' = "fired"
    /\ eventLog' = Append(eventLog, "timeout")
    /\ IF ~isResolved
       THEN /\ isResolved' = TRUE
            /\ childKilled' = TRUE
            /\ resolveLog' = Append(resolveLog, TimeoutResult)
       ELSE UNCHANGED <<isResolved, childKilled, resolveLog>>
    /\ UNCHANGED <<child, spawnFailed, exitCode, timeout, elapsed, stdout, stderr, calls>>

\* Mutant: the 'close' handler without the isResolved guard.
OnCloseNoGuard ==
    /\ child \in {"exited", "errored"}
    /\ child' = "closed"
    /\ eventLog' = Append(eventLog, "close")
    /\ isResolved' = TRUE
    /\ timeoutId' = IF timeoutId = "armed" THEN "cleared" ELSE timeoutId
    /\ resolveLog' = Append(resolveLog, CloseResult(exitCode))
    /\ UNCHANGED <<spawnFailed, childKilled, exitCode, timeout, elapsed, stdout, stderr, calls>>

\* child.on('close')
OnClose ==
    /\ child \in {"exited", "errored"}
    /\ child' = "closed"
    /\ eventLog' = Append(eventLog, "close")
    /\ IF ~isResolved
       THEN /\ isResolved' = TRUE
            /\ timeoutId' = IF timeoutId = "armed" THEN "cleared" ELSE timeoutId
            /\ resolveLog' = Append(resolveLog, CloseResult(exitCode))
       ELSE UNCHANGED <<isResolved, timeoutId, resolveLog>>
    /\ UNCHANGED <<spawnFailed, childKilled, exitCode, timeout, elapsed, stdout, stderr, calls>>

\* Mutant: the 'error' handler only logs; the call is left to 'close' or the timer.
OnErrorLogOnly ==
    /\ child = "failed"
    /\ child' = "errored"
    /\ exitCode' = <<SpawnErrno>>
    /\ eventLog' = Append(eventLog, "error")
    /\ UNCHANGED <<spawnFailed, childKilled, isResolved, timeoutId, resolveLog, timeout,
                   elapsed, stdout, stderr, calls>>

\* child.on('error'): the spawn failed; Node then emits 'close' with the errno.
OnError ==
    /\ child = "failed"
    /\ child' = "errored"
    /\ exitCode' = <<SpawnErrno>>
    /\ eventLog' = Append(eventLog, "error")
    /\ IF ~isResolved
       THEN /\ isResolved' = TRUE
            /\ timeoutId' = IF timeoutId = "armed" THEN "cleared" ELSE timeoutId
            /\ resolveLog' = Append(resolveLog, ErrorResult)
       ELSE UNCHANGED <<isResolved, timeoutId, resolveLog>>
    /\ UNCHANGED <<spawnFailed, childKilled, timeout, elapsed, stdout, stderr, calls>>

\* Time passes. The 'error' of a failed spawn is delivered on the next tick of
\* the event loop, before any timer can expire.
RunnerTick ==
    /\ child \in {"running", "exited", "errored"}
    /\ elapsed < MaxTicks * MsPerSecond
    /\ elapsed' = elapsed + MsPerSecond
    /\ UNCHANGED <<child, spawnFailed, childKilled, exitCode, isResolved, timeoutId, timeout,
                   stdout, stderr, resolveLog, eventLog, calls>>

\* ------------------------------------------------------------------------
\* SpecKitCliService.findCliPath / testCliPath
\* ------------------------------------------------------------------------
DefaultCliPath == "specify-cn"
CustomPath == "/opt/tools/specify-cn"

possiblePaths == <<"specify-cn", "specify-cn.exe">>

\* The user-specific .local/bin candidates of each platform, in listed order.
UserLocalBinPaths(plat) ==
    IF plat = "win32"
    THEN << "%USERPROFILE%\\.local\\bin\\specify-cn.exe",
            "%USERPROFILE%\\.local\\bin\\specify-cn",
            "%USERPROFILE%\\.local\\bin\\specify-cn.cmd",
            "%USERPROFILE%\\.local\\bin\\specify-cn.bat" >>
    ELSE << "$HOME/.local/bin/specify-cn",
            "$HOME/.local/bin/specify-cn.exe" >>

\* Mutant: the user paths are pushed behind the bare names instead of unshifted.
allPossiblePathsPushed ==
    IF homeSet THEN possiblePaths \o UserLocalBinPaths(platform) ELSE possiblePaths

\* allPossiblePaths after the unshift(...) of the user paths
allPossiblePaths ==
    IF homeSet THEN UserLocalBinPaths(platform) \o possiblePaths ELSE possiblePaths

Probe(kind, path, pos) == [kind |-> kind, path |-> path, pos |-> pos]

\* testCliPath(this.cliPath): win32 tries cmd, then powershell; otherwise a
\* direct '--help' run. Yields the verdict and the probes made.
testCliPath(testPath) ==
    IF platform = "win32"
    THEN IF cmdOk
         THEN [ok |-> TRUE, log |-> <<Probe("cmd", testPath, 0)>>]
         ELSE [ok |-> psOk,
               log |-> <<Probe("cmd", testPath, 0), Probe("powershell", testPath, 0)>>]
    ELSE [ok |-> testPath \in runs, log |-> <<Probe("help", testPath, 0)>>]

\* The for-loop over allPossiblePaths: pathExists, then a '--help' run.
RECURSIVE TryPaths(_, _, _)
TryPaths(paths, i, log) ==
    IF i > Len(paths)
    THEN [path |-> cliPath, log |-> log]
    ELSE LET p == paths[i]
             l1 == Append(log, Probe("access", p, i))
             l2 == Append(l1, Probe("help", p, i))
         IN IF p \in exists
            THEN IF p \in runs THEN [path |-> p, log |-> l2]
                 ELSE TryPaths(paths, i + 1, l2)
            ELSE TryPaths(paths, i + 1, l1)

findCliPath ==
    LET t == testCliPath(cliPath)
    IN IF t.ok THEN [path |-> cliPath, log |-> t.log]
       ELSE TryPaths(allPossiblePaths, 1, t.log)

FindCliPath ==
    /\ foundPath' = findCliPath.path
    /\ probeLog' = findCliPath.log
    /\ UNCHANGED <<platform, homeSet, cliPath, exists, runs, cmdOk, psOk>>

LocatorIdle ==
    /\ platform = "posix" /\ homeSet = FALSE /\ cliPath = DefaultCliPath
    /\ exists = {} /\ runs = {} /\ cmdOk = FALSE /\ psOk = FALSE
    /\ foundPath = "" /\ probeLog = <<>>

Range(seq) == {seq[k] : k \in 1..Len(seq)}

\* The constructor (cliPath from the configuration) in every environment:
\* only files that exist can run; a bare name can run from PATH; 'cmd /c p'
\* succeeds exactly when the shell-spawned p does (the shell of win32 is cmd).
LocatorInit ==
    /\ platform \in {"win32", "posix"}
    /\ homeSet \in BOOLEAN
    /\ cliPath \in {DefaultCliPath, CustomPath}
    /\ LET home == IF homeSet THEN Range(UserLocalBinPaths(platform)) ELSE {}
           bare == Range(possiblePaths)
       IN /\ exists \in SUBSET (home \cup bare)
          /\ runs \in SUBSET ((home \cap exists) \cup bare \cup ({cliPath} \ bare))
    /\ cmdOk = (platform = "win32" /\ cliPath \in runs)
    /\ psOk \in (IF platform = "win32" THEN BOOLEAN ELSE {FALSE})
    /\ foundPath = "" /\ probeLog = <<>>

\* ------------------------------------------------------------------------
\* SpecifyCliService: detectCli, getCliVersion, executeCommand, run*, clearCache
\* ------------------------------------------------------------------------
CACHE_DURATION == 5 * 60 * 1000
TickMs == 150 * 1000

WhichPath == "/usr/local/bin/specify-cn"
NotInPathMessage == "specify-cn CLI not found in PATH. Please install it first."
WhichThrowMessage == "not found: specify-cn"
CliNotFoundMessage == "specify-cn CLI not found"

NoDetection == [found |-> FALSE, path |-> "", version |-> "", error |-> ""]

\* getCliVersion: output.match(/[\d.]+/) of the '--version' output, 'unknown'
\* without a match, undefined when the run fails.
getCliVersion ==
    CASE versionRun = "fail" -> "undefined"
      [] versionRun = "specify-cn 1.2.3" -> "1.2.3"
      [] OTHER -> "unknown"

FoundResult(p) == [found |-> TRUE, path |-> p, version |-> getCliVersion, error |-> ""]
NotFoundResult(msg) == [found |-> FALSE, path |-> "", version |-> "", error |-> msg]

\* Mutant: which.sync's exception is not caught; detectCli rejects.
DetectionUncaught ==
    LET tryCustom == customPath # ""
        n == IF tryCustom THEN 1 ELSE 0
    IN IF tryCustom /\ onDisk
       THEN [res |-> FoundResult(customPath), probes |-> n + 1, thrown |-> FALSE]
       ELSE CASE onPath = "throws" ->
                   [res |-> NoDetection, probes |-> n + 1, thrown |-> TRUE]
              [] onPath = "" ->
                   [res |-> NotFoundResult(NotInPathMessage), probes |-> n + 1,
                    thrown |-> FALSE]
              [] OTHER ->
                   [res |-> FoundResult(onPath), probes |-> n + 2, thrown |-> FALSE]

\* The body of detectCli after the cache check: the result, the number of
\* probes made (fs.stat, which, the '--version' run) and whether it throws.
Detection ==
    LET tryCustom == customPath # ""
        n == IF tryCustom THEN 1 ELSE 0
    IN IF tryCustom /\ onDisk
       THEN [res |-> FoundResult(customPath), probes |-> n + 1, thrown |-> FALSE]
       ELSE CASE onPath = "throws" ->
                   [res |-> NotFoundResult(WhichThrowMessage), probes |-> n + 1,
                    thrown |-> FALSE]
              [] onPath = "" ->
                   [res |-> NotFoundResult(NotInPathMessage), probes |-> n + 1,
                    thrown |-> FALSE]
              [] OTHER ->
                   [res |-> FoundResult(onPath), probes |-> n + 2, thrown |-> FALSE]

\* Mutant: the freshness test accepts the instant of expiry.
CacheFreshInclusive(force) == ~force /\ detectionCache # <<>> /\ now <= cacheExpiry

\* !forceRefresh && this.detectionCache && Date.now() < this.cacheExpiry
CacheFresh(force) == ~force /\ detectionCache # <<>> /\ now < cacheExpiry

Ops == {"detectCli", "runInit", "runSpecify", "runPlan", "runTasks"}
ExecOutcomes == {"ok", "spawnError", "nonZeroExit", "timeout", "maxBuffer"}

Call(id, op, force) ==
    [id |-> id, op |-> op, force |-> force, start |-> now, cachedAt |-> cachedAt,
     stage |-> "detecting", hit |-> FALSE, gen |-> 0, res |-> NoDetection, probes |-> 0]

Done(c, outcome, exec) == c @@ [outcome |-> outcome, exec |-> exec]

\* What follows the detection of call c: detectCli returns the result; a run
\* method throws when nothing was found and otherwise starts the command.
AfterDetection(c, others) ==
    IF c.op = "detectCli"
    THEN /\ callLog' = Append(callLog, Done(c, "resolved", "none"))
         /\ inflight' = others
    ELSE IF ~c.res.found \/ c.res.path = ""
    THEN /\ callLog' = Append(callLog, Done(c, "rejected", "none"))
         /\ inflight' = others
    ELSE /\ callLog' = callLog
         /\ inflight' = others \cup {[c EXCEPT !.stage = "executing"]}

\* A call enters detectCli: a fresh cache entry is returned at once.
DetectCliStart(op, force) ==
    /\ nextId < MaxDetects
    /\ op # "detectCli" => ~force
    /\ nextId' = nextId + 1
    /\ lastOp' = "other"
    /\ LET c == Call(nextId + 1, op, force)
       IN IF CacheFresh(force)
          THEN AfterDetection([c EXCEPT !.hit = TRUE, !.gen = cacheGen,
                                        !.res = detectionCache[1]], inflight)
          ELSE /\ inflight' = inflight \cup {c}
               /\ callLog' = callLog
    /\ UNCHANGED <<now, detectionCache, cacheExpiry, detectEnv, cacheGen, cachedAt>>

\* The detection of a call completes: cacheResult(result), then the rest.
DetectCliFinish(c) ==
    /\ c \in inflight
    /\ c.stage = "detecting"
    /\ lastOp' = "other"
    /\ IF Detection.thrown
       THEN /\ callLog' = Append(callLog, Done([c EXCEPT !.probes = Detection.probes],
                                                "rejected", "none"))
            /\ inflight' = inflight \ {c}
            /\ UNCHANGED <<detectionCache, cacheExpiry, cacheGen, cachedAt>>
       ELSE /\ detectionCache' = <<Detection.res>>
            /\ cacheExpiry' = now + CACHE_DURATION
            /\ cacheGen' = cacheGen + 1
            /\ cachedAt' = now
            /\ AfterDetection([c EXCEPT !.gen = cacheGen + 1, !.res = Detection.res,
                                        !.probes = Detection.probes], inflight \ {c})
    /\ UNCHANGED <<now, detectEnv, nextId>>

\* The execFile callback of executeCommand: reject(error) or resolve(stdout).
ExecFileDone(c, exec) ==
    /\ c \in inflight
    /\ c.stage = "executing"
    /\ lastOp' = "other"
    /\ callLog' = Append(callLog, Done(c, IF exec = "ok" THEN "resolved" ELSE "rejected", exec))
    /\ inflight' = inflight \ {c}
    /\ UNCHANGED <<now, detectionCache, cacheExpiry, detectEnv, nextId, cacheGen, cachedAt>>

\* Mutant: clearCache resets the expiry but keeps the entry.
ClearCacheKeepsEntry ==
    /\ cacheExpiry' = 0
    /\ cachedAt' = -1
    /\ lastOp' = "clearCache"
    /\ UNCHANGED <<now, detectionCache, detectEnv, inflight, callLog, nextId, cacheGen>>

ClearCache ==
    /\ detectionCache' = <<>>
    /\ cacheExpiry' = 0
    /\ cachedAt' = -1
    /\ lastOp' = "clearCache"
    /\ UNCHANGED <<now, detectEnv, inflight, callLog, nextId, cacheGen>>

DetectEnvs ==
    { e \in {"", CustomPath} \X BOOLEAN \X {WhichPath, "", "throws"}
            \X {"fail", "specify-cn 1.2.3", "specify-cn"} :
        e[1] = "" => ~e[2] }

\* The user or the system changes the configuration or the installation.
EnvChange(e) ==
    /\ e # detectEnv
    /\ customPath' = e[1] /\ onDisk' = e[2] /\ onPath' = e[3] /\ versionRun' = e[4]
    /\ lastOp' = "other"
    /\ UNCHANGED <<now, detectionCache, cacheExpiry, inflight, callLog, nextId, cacheGen,
                   cachedAt>>

Tick ==
    /\ now < MaxClockTicks * TickMs
    /\ now' = now + TickMs
    /\ lastOp' = "other"
    /\ UNCHANGED <<detectionCache, cacheExpiry, detectEnv, inflight, callLog, nextId,
                   cacheGen, cachedAt>>

DetectIdle ==
    /\ now = 0 /\ detectionCache = <<>> /\ cacheExpiry = 0
    /\ inflight = {} /\ callLog = <<>> /\ nextId = 0 /\ cacheGen = 0 /\ cachedAt = -1
    /\ lastOp = "other"

EnvIs(e) == customPath = e[1] /\ onDisk = e[2] /\ onPath = e[3] /\ versionRun = e[4]

DetectEnvIdle == EnvIs(<<"", FALSE, "", "fail">>)

\* ------------------------------------------------------------------------
\* SpecKitCliService.stripAnsi and getCliVersion
\* ------------------------------------------------------------------------
\* Text is a sequence of characters. The characters that matter to the regular
\* expressions of stripAnsi, one or two of each class:
ESC == "<ESC>"
BEL == "<BEL>"
LF == "<LF>"
Block == "<block>"
HLine == "<hline>"
Digit == {"1", "2", "3", "7"}
Upper == {"P", "A"}
Letter == Upper \cup {"m", "x"}
DigitSemi == Digit \cup {";"}
Whitespace == {" ", LF}
ControlChars == {ESC, BEL}
BorderChars == {Block, HLine}
ArtChars == {Block}
ArtThreshold == 5

At(s, i) == IF i >= 1 /\ i <= Len(s) THEN s[i] ELSE ""

\* The first index from i on whose character is not in S (Len(s) + 1 if none).
RECURSIVE SkipWhile(_, _, _)
SkipWhile(s, i, S) == IF i <= Len(s) /\ s[i] \in S THEN SkipWhile(s, i + 1, S) ELSE i

\* The first index from i on whose character is c (Len(s) + 1 if none).
RECURSIVE SkipUntil(_, _, _)
SkipUntil(s, i, c) == IF i <= Len(s) /\ s[i] # c THEN SkipUntil(s, i + 1, c) ELSE i

\* The length of the match of one regular expression of stripAnsi at index i
\* (0: no match there).
MatchLen(rule, s, i) ==
    IF At(s, i) # ESC
    THEN IF rule = "CONTROL" /\ At(s, i) \in ControlChars THEN 1 ELSE 0
    ELSE CASE rule = "CSI" ->
                IF At(s, i + 1) = "["
                THEN LET j == SkipWhile(s, i + 2, DigitSemi)
                     IN IF At(s, j) \in Letter THEN j - i + 1 ELSE 0
                ELSE 0
           [] rule = "OSC" ->
                IF At(s, i + 1) = "]"
                THEN LET j == SkipUntil(s, i + 2, BEL)
                     IN IF j <= Len(s) THEN j - i + 1 ELSE 0
                ELSE 0
           [] rule = "PRIVATE" ->
                IF At(s, i + 1) = "[" /\ At(s, i + 2) = "?"
                THEN LET j == SkipWhile(s, i + 3, DigitSemi)
                     IN IF At(s, j) \in Letter THEN j - i + 1 ELSE 0
                ELSE 0
           [] rule = "DCS" ->
                IF At(s, i + 1) = "P"
                THEN LET j == SkipUntil(s, i + 2, ESC)
                     IN IF At(s, j + 1) = "\\" THEN j - i + 2 ELSE 0
                ELSE 0
           [] rule = "CHARSET" ->
                IF At(s, i + 1) = "(" /\ At(s, i + 2) \in Upper THEN 3 ELSE 0
           [] rule = "KEYPAD" -> IF At(s, i + 1) = "=" THEN 2 ELSE 0
           [] rule = "CURSOR" -> IF At(s, i + 1) = "7" THEN 2 ELSE 0
           [] rule = "C1" -> IF At(s, i + 1) \in {"P", "\\"} THEN 2 ELSE 0
           [] OTHER -> 1

\* text.replace(/rule/g, '')
RECURSIVE Remove(_, _, _)
Remove(rule, s, i) ==
    IF i > Len(s) THEN <<>>
    ELSE LET n == MatchLen(rule, s, i)
         IN IF n > 0 THEN Remove(rule, s, i + n)
            ELSE <<s[i]>> \o Remove(rule, s, i + 1)

\* Mutant: only the escape sequences are removed, not the characters left over.
RulesSequencesOnly ==
    <<"CSI", "OSC", "PRIVATE", "DCS", "CHARSET", "KEYPAD", "CURSOR", "C1">>

\* The chain of replace() calls, in its order.
Rules ==
    <<"CSI", "OSC", "PRIVATE", "DCS", "CHARSET", "KEYPAD", "CURSOR", "C1", "CONTROL", "ESC">>

RECURSIVE ApplyRules(_, _, _)
ApplyRules(rules, k, s) ==
    IF k > Len(rules) THEN s ELSE ApplyRules(rules, k + 1, Remove(rules[k], s, 1))

StripEscapes(s) == ApplyRules(Rules, 1, s)

\* cleaned.split('\n')
RECURSIVE SplitFrom(_, _, _)
SplitFrom(s, i, cur) ==
    IF i > Len(s) THEN <<cur>>
    ELSE IF s[i] = LF THEN <<cur>> \o SplitFrom(s, i + 1, <<>>)
    ELSE SplitFrom(s, i + 1, Append(cur, s[i]))

SplitLines(s) == SplitFrom(s, 1, <<>>)

\* filteredLines.join('\n')
RECURSIVE JoinFrom(_, _)
JoinFrom(lines, k) ==
    IF k > Len(lines) THEN <<>>
    ELSE IF k = Len(lines) THEN lines[k]
    ELSE lines[k] \o <<LF>> \o JoinFrom(lines, k + 1)

JoinLines(lines) == JoinFrom(lines, 1)

RECURSIVE LastNonSpace(_, _)
LastNonSpace(s, i) == IF i >= 1 /\ s[i] \in Whitespace THEN LastNonSpace(s, i - 1) ELSE i

\* String.prototype.trim
Trim(s) ==
    LET a == SkipWhile(s, 1, Whitespace)
        b == LastNonSpace(s, Len(s))
    IN IF a > b THEN <<>> ELSE SubSeq(s, a, b)

\* borderChars.test(line.trim())
BorderOnly(line) ==
    LET t == Trim(line)
    IN t # <<>> /\ \A k \in 1..Len(t) : t[k] \in BorderChars \cup Whitespace

\* (line.match(/[art]/g) || []).length
ArtCount(line) == Cardinality({k \in 1..Len(line) : line[k] \in ArtChars})

\* Mutant: a line with exactly ArtThreshold glyphs is dropped as well.
KeepLineUnderThreshold(line) == ~BorderOnly(line) /\ ArtCount(line) < ArtThreshold

\* The predicate of lines.filter(...)
KeepLine(line) == ~BorderOnly(line) /\ ~(ArtCount(line) > ArtThreshold)

stripAnsi(s) == Trim(JoinLines(SelectSeq(SplitLines(StripEscapes(s)), KeepLine)))

\* The length of a match of \d+\.\d+\.\d+ at index i (0: no match there).
VersionLen(s, i) ==
    IF At(s, i) \notin Digit THEN 0
    ELSE LET j == SkipWhile(s, i, Digit)
         IN IF At(s, j) # "." \/ At(s, j + 1) \notin Digit THEN 0
            ELSE LET k == SkipWhile(s, j + 1, Digit)
                 IN IF At(s, k) # "." \/ At(s, k + 1) \notin Digit THEN 0
                    ELSE SkipWhile(s, k + 1, Digit) - i

\* cleanOutput.match(/(\d+\.\d+\.\d+)/): the leftmost match (<<>>: null)
RECURSIVE versionMatch(_, _)
versionMatch(s, i) ==
    IF i > Len(s) THEN <<>>
    ELSE IF VersionLen(s, i) > 0 THEN SubSeq(s, i, i + VersionLen(s, i) - 1)
    ELSE versionMatch(s, i + 1)

Available == <<"Available">>

\* SpecKitCliService.getCliVersion() for a 'version' run that printed output.
SpecKit_getCliVersion(success, output) ==
    IF ~success THEN Available
    ELSE LET cleanOutput == stripAnsi(Trim(output))
             m == versionMatch(cleanOutput, 1)
             first == SplitLines(cleanOutput)[1]
         IN IF m # <<>> THEN <<"v">> \o m
            ELSE IF first # <<>> THEN first ELSE Available

\* --- the texts a child process prints ---
RawAlphabet ==
    {ESC, BEL, LF, " ", Block, HLine, "[", "]", "?", "(", "=", "\\", ";", "7", "P", "m"}

RECURSIVE SeqsUpTo(_, _)
SeqsUpTo(S, n) ==
    IF n = 0 THEN {<<>>}
    ELSE LET shorter == SeqsUpTo(S, n - 1)
         IN shorter \cup {Append(t, c) : t \in shorter, c \in S}

RawTexts == SeqsUpTo(RawAlphabet, MaxRawLen)

Colour == <<ESC, "[", "1", ";", "3", "m">>
Reset == <<ESC, "[", "7", "m">>
Version == <<"1", ".", "2", ".", "3">>
Blocks(n) == [k \in 1..n |-> Block]

\* Escape sequences and pieces of them, to be put next to each other.
Fragments ==
    { Colour, <<ESC>>, <<"[", "7", "m">>, <<ESC, "]", "x", BEL>>, <<ESC, "P", "x">>,
      <<ESC, "\\">>, <<ESC, "[", "?", "2", "m">>, <<" ">>, <<LF>>, <<Block>>, <<"x">> }

RECURSIVE Concat(_, _)
Concat(pieces, k) == IF k > Len(pieces) THEN <<>> ELSE pieces[k] \o Concat(pieces, k + 1)

FragmentTexts == {Concat(ps, 1) : ps \in SeqsUpTo(Fragments, MaxFragments)}

\* The lines of a banner-emitting tool: what is printed, what of it is visible,
\* and whether the line is text (kept) or banner art (dropped).
LineSamples ==
    { [chars |-> Colour \o Version \o Reset, plain |-> Version, art |-> FALSE],
      [chars |-> <<"x", " ">> \o Version, plain |-> <<"x", " ">> \o Version, art |-> FALSE],
      [chars |-> Colour \o Blocks(ArtThreshold + 1) \o Reset,
       plain |-> Blocks(ArtThreshold + 1), art |-> TRUE],
      [chars |-> Blocks(ArtThreshold + 1) \o <<" ", "x">>,
       plain |-> Blocks(ArtThreshold + 1) \o <<" ", "x">>, art |-> TRUE],
      [chars |-> Blocks(ArtThreshold) \o <<" ", "x">>,
       plain |-> Blocks(ArtThreshold) \o <<" ", "x">>, art |-> FALSE],
      [chars |-> <<HLine, Block, HLine>>, plain |-> <<HLine, Block, HLine>>, art |-> TRUE],
      [chars |-> Colour \o <<"x">> \o Reset, plain |-> <<"x">>, art |-> FALSE],
      [chars |-> <<>>, plain |-> <<>>, art |-> FALSE] }

Scenarios == SeqsUpTo(LineSamples, MaxLines) \ {<<>>}

TextOf(sc) == JoinLines([k \in 1..Len(sc) |-> sc[k].chars])

\* stripAnsi(text) is computed.
StripOnce ==
    /\ pass1 = <<>>
    /\ pass1' = <<stripAnsi(text)>>
    /\ UNCHANGED <<text, scenario, pass2, versionOut>>

\* The sanitized text is sanitized again.
StripTwice ==
    /\ pass1 # <<>> /\ pass2 = <<>>
    /\ pass2' = <<stripAnsi(pass1[1])>>
    /\ UNCHANGED <<text, scenario, pass1, versionOut>>

\* getCliVersion() after a successful 'version' run that printed text.
GetCliVersion ==
    /\ versionOut = <<>>
    /\ versionOut' = <<SpecKit_getCliVersion(TRUE, text)>>
    /\ UNCHANGED <<text, scenario, pass1, pass2>>

SanitizerIdle ==
    text = <<>> /\ scenario = <<>> /\ pass1 = <<>> /\ pass2 = <<>> /\ versionOut = <<>>

SanitizerInit ==
    /\ pass1 = <<>> /\ pass2 = <<>> /\ versionOut = <<>>
    /\ \/ scenario = <<>> /\ text \in RawTexts \cup FragmentTexts
       \/ scenario \in Scenarios /\ text = TextOf(scenario)

\* ------------------------------------------------------------------------
\* SpecKitCliService: initProject, checkSystemTools, getVersion, executeCommand
\* ------------------------------------------------------------------------
Methods == {"initProject", "checkSystemTools", "getVersion", "executeCommand"}
Outcomes == {"exit0", "exit1", "timeout", "spawnError"}

\* The timeout message (it has line breaks and digits, no escape character)
\* and the message of a spawn error.
TimeoutText == <<"x", "1", "2", "7", LF, "1", ".", "x">>
SpawnErrorText == <<"x">>

\* What a child prints on stdout and on stderr.
CommandTexts ==
    { <<>>, <<"x">>, Colour \o <<"x">> \o Reset,
      Blocks(ArtThreshold + 1) \o <<LF>> \o Version }
ErrorTexts == { <<>>, Colour \o <<"x">> \o Reset }

\* The CliCommandResult runCommandWithPath resolves (error <<>>: undefined).
CommandResult(outcome, out, err) ==
    CASE outcome = "exit0" -> [success |-> TRUE, output |-> out, error |-> err, exitCode |-> 0]
      [] outcome = "exit1" -> [success |-> FALSE, output |-> out, error |-> err, exitCode |-> 1]
      [] outcome = "timeout" ->
           [success |-> FALSE, output |-> out, error |-> TimeoutText, exitCode |-> -1]
      [] OTHER ->
           [success |-> FALSE, output |-> <<>>, error |-> SpawnErrorText, exitCode |-> -1]

\* The child processes a findCliPath log stands for (an access probe spawns none).
Spawned(log) == Cardinality({k \in 1..Len(log) : log[k].kind # "access"})

\* A method of the service: runCommand (findCliPath, then runCommandWithPath);
\* initProject strips output and error before it returns.
KitCommand(m, outcome, out, err) ==
    /\ commands < MaxCommands
    /\ commands' = commands + 1
    /\ method' = m
    /\ LET loc == findCliPath
           result == CommandResult(outcome, out, err)
       IN /\ foundPath' = loc.path
          /\ probeLog' = loc.log
          /\ spawns' = Spawned(loc.log) + 1
          /\ returned' = << IF m = "initProject"
                            THEN [result EXCEPT
                                    !.output = stripAnsi(result.output),
                                    !.error = IF result.error # <<>>
                                              THEN stripAnsi(result.error)
                                              ELSE result.error]
                            ELSE result >>
    /\ UNCHANGED <<platform, homeSet, cliPath, exists, runs, cmdOk, psOk>>

CommandIdle == method = "" /\ spawns = 0 /\ returned = <<>> /\ commands = 0

\* ------------------------------------------------------------------------
\* SpecKitCliService: getProjectStatus and its cache slot
\* ------------------------------------------------------------------------
STATUS_CACHE_DURATION == 5000
STATUS_TIMEOUT == 3000
MinConstitutionBytes == 100
StatusTickMs == MsPerSecond

Markers == {".specify", ".specify/templates", ".specify/templates/commands",
            ".specify/memory"}
SpecFiles == {"spec.md", "plan.md", "tasks.md"}

\* The sub-checks that read the file system.
ConstitutionAccess == "access constitution.md"
ConstitutionStat == "stat constitution.md"
SpecsAccess == "access specs"
SpecsReaddir == "readdir specs"
Checks == Markers \cup SpecFiles \cup
          {ConstitutionAccess, ConstitutionStat, SpecsAccess, SpecsReaddir}

AllFalse(root) ==
    [isInitialized |-> FALSE, hasConstitution |-> FALSE, hasSpecification |-> FALSE,
     hasPlan |-> FALSE, hasTasks |-> FALSE, workspaceRoot |-> root]

\* pathExists(p): fs.access succeeded; any error is caught and means false.
pathExists(check, there) == there /\ check \notin fsErrors

\* Mutant: one marker directory is enough.
MarkersPresentAny == \E m \in Markers : pathExists(m, m \in markers)

\* hasSpecifyDir && hasTemplatesDir && hasCommandsDir && hasMemoryDir
MarkersPresent == \A m \in Markers : pathExists(m, m \in markers)

\* Mutant: a file of exactly MinConstitutionBytes counts as a constitution.
ConstitutionCheckAtLeast ==
    IF pathExists(ConstitutionAccess, constitutionSize >= 0)
    THEN [value |-> ConstitutionStat \notin fsErrors
                    /\ constitutionSize >= MinConstitutionBytes,
          reads |-> {ConstitutionAccess, ConstitutionStat}, thrown |-> FALSE]
    ELSE [value |-> FALSE, reads |-> {ConstitutionAccess}, thrown |-> FALSE]

\* Mutant: the error of fs.stat is not caught.
ConstitutionCheckUncaught ==
    IF pathExists(ConstitutionAccess, constitutionSize >= 0)
    THEN [value |-> ConstitutionStat \notin fsErrors
                    /\ constitutionSize > MinConstitutionBytes,
          reads |-> {ConstitutionAccess, ConstitutionStat},
          thrown |-> ConstitutionStat \in fsErrors]
    ELSE [value |-> FALSE, reads |-> {ConstitutionAccess}, thrown |-> FALSE]

\* The try block around the constitution: pathExists, then fs.stat and the
\* size test; an error of fs.stat is caught and leaves hasConstitution false.
ConstitutionCheck ==
    IF pathExists(ConstitutionAccess, constitutionSize >= 0)
    THEN [value |-> ConstitutionStat \notin fsErrors
                    /\ constitutionSize > MinConstitutionBytes,
          reads |-> {ConstitutionAccess, ConstitutionStat}, thrown |-> FALSE]
    ELSE [value |-> FALSE, reads |-> {ConstitutionAccess}, thrown |-> FALSE]

\* The try block around the specs directory: pathExists, readdir, and the
\* three files of the first entry; an error of readdir is caught and leaves
\* the three flags false.
SpecsCheck ==
    IF ~pathExists(SpecsAccess, specsDirExists)
    THEN [files |-> {}, reads |-> {SpecsAccess}]
    ELSE IF SpecsReaddir \in fsErrors \/ firstSpecDir = <<>>
    THEN [files |-> {}, reads |-> {SpecsAccess, SpecsReaddir}]
    ELSE [files |-> {f \in SpecFiles : pathExists(f, f \in firstSpecDir[1])},
          reads |-> {SpecsAccess, SpecsReaddir} \cup SpecFiles]

\* Mutant: the constitution and the specs are read before the markers are tested.
getProjectStatusInternalEager(root) ==
    [status |-> IF MarkersPresent
                THEN [isInitialized |-> TRUE,
                      hasConstitution |-> ConstitutionCheck.value,
                      hasSpecification |-> "spec.md" \in SpecsCheck.files,
                      hasPlan |-> "plan.md" \in SpecsCheck.files,
                      hasTasks |-> "tasks.md" \in SpecsCheck.files,
                      workspaceRoot |-> root]
                ELSE AllFalse(root),
     reads |-> Markers \cup ConstitutionCheck.reads \cup SpecsCheck.reads,
     thrown |-> FALSE]

\* The status derived from the file system, the sub-checks made for it, and
\* whether an error left the method.
getProjectStatusInternal(root) ==
    IF ~MarkersPresent
    THEN [status |-> AllFalse(root), reads |-> Markers, thrown |-> FALSE]
    ELSE [status |-> [isInitialized |-> TRUE,
                      hasConstitution |-> ConstitutionCheck.value,
                      hasSpecification |-> "spec.md" \in SpecsCheck.files,
                      hasPlan |-> "plan.md" \in SpecsCheck.files,
                      hasTasks |-> "tasks.md" \in SpecsCheck.files,
                      workspaceRoot |-> root],
          reads |-> Markers \cup ConstitutionCheck.reads
                    \cup (IF ConstitutionCheck.thrown THEN {} ELSE SpecsCheck.reads),
          thrown |-> ConstitutionCheck.thrown]

\* Mutant: an entry of exactly STATUS_CACHE_DURATION is still returned.
StatusCacheFreshInclusive ==
    statusCache # <<>> /\ (now - statusCache[1].timestamp) <= STATUS_CACHE_DURATION

StatusCacheFresh ==
    statusCache # <<>> /\ (now - statusCache[1].timestamp) < STATUS_CACHE_DURATION

\* A finished getProjectStatus call: how it got its status, the sub-checks it
\* made, and the cache entry it left.
Returned(id, start, cacheTs, root, how, status, reads, stored, gen) ==
    [id |-> id, start |-> start, cacheTs |-> cacheTs, root |-> root, end |-> now,
     how |-> how, status |-> status, reads |-> reads, stored |-> stored, gen |-> gen]

StatusFrame ==
    UNCHANGED <<projectFs, detectionCache, cacheExpiry, detectEnv, inflight, callLog,
                nextId, cacheGen, cachedAt>>

\* getProjectStatus up to its first await: the cache test, the missing
\* workspace root, or the start of the derivation and of the 3000 ms timer.
GetProjectStatusStart ==
    /\ statusNextId < MaxStatusCalls
    /\ statusNextId' = statusNextId + 1
    /\ lastOp' = "other"
    /\ LET cacheTs == IF statusCache = <<>> THEN -1 ELSE statusCache[1].timestamp
       IN IF StatusCacheFresh
          THEN /\ UNCHANGED <<statusCache, statusCalls>>
               /\ lastStatus' = <<statusCache[1].status>>
               /\ statusLog' = Append(statusLog,
                     Returned(statusNextId, now, cacheTs, workspaceRoot, "cache",
                              statusCache[1].status, {}, statusCache', -1))
          ELSE IF workspaceRoot = ""
          THEN /\ statusCache' = <<[status |-> AllFalse(""), timestamp |-> now]>>
               /\ lastStatus' = <<AllFalse("")>>
               /\ statusLog' = Append(statusLog,
                     Returned(statusNextId, now, cacheTs, "", "noRoot", AllFalse(""), {},
                              statusCache', -1))
               /\ UNCHANGED statusCalls
          ELSE /\ statusCalls' = statusCalls \cup
                     {[id |-> statusNextId, start |-> now, cacheTs |-> cacheTs,
                       root |-> workspaceRoot, derived |-> <<>>]}
               /\ UNCHANGED <<statusCache, lastStatus, statusLog>>
    /\ UNCHANGED now
    /\ StatusFrame

\* The file system calls of the derivation complete: what they found is what
\* the call will report, whatever happens to the files before it returns.
RunProjectStatusInternal(c) ==
    /\ c \in statusCalls
    /\ c.derived = <<>>
    /\ lastOp' = "other"
    /\ statusCalls' = (statusCalls \ {c}) \cup
          {[c EXCEPT !.derived = <<[d |-> getProjectStatusInternal(c.root), gen |-> fsGen]>>]}
    /\ UNCHANGED <<now, statusCache, lastStatus, statusLog, statusNextId>>
    /\ StatusFrame

\* The derivation wins the race: its status is cached and returned; had it
\* thrown, the catch block would cache and return the default status.
GetProjectStatusDone(c) ==
    /\ c \in statusCalls
    /\ c.derived # <<>>
    /\ now <= c.start + STATUS_TIMEOUT
    /\ lastOp' = "other"
    /\ LET d == c.derived[1].d
           status == IF d.thrown THEN AllFalse(c.root) ELSE d.status
       IN /\ statusCache' = <<[status |-> status, timestamp |-> now]>>
          /\ lastStatus' = <<status>>
          /\ statusLog' = Append(statusLog,
                Returned(c.id, c.start, c.cacheTs, c.root,
                         IF d.thrown THEN "error" ELSE "derived", status, d.reads,
                         statusCache', c.derived[1].gen))
    /\ statusCalls' = statusCalls \ {c}
    /\ UNCHANGED <<now, statusNextId>>
    /\ StatusFrame

\* Mutant: the default status is returned after the timeout but not cached.
GetProjectStatusTimeoutNoCache(c) ==
    /\ c \in statusCalls
    /\ now >= c.start + STATUS_TIMEOUT
    /\ lastOp' = "other"
    /\ UNCHANGED statusCache
    /\ lastStatus' = <<AllFalse(c.root)>>
    /\ statusLog' = Append(statusLog,
          Returned(c.id, c.start, c.cacheTs, c.root, "timeout", AllFalse(c.root), {},
                   statusCache', -1))
    /\ statusCalls' = statusCalls \ {c}
    /\ UNCHANGED <<now, statusNextId>>
    /\ StatusFrame

\* The timer wins the race: the rejection is caught, the default status is
\* cached and returned.
GetProjectStatusTimeout(c) ==
    /\ c \in statusCalls
    /\ now >= c.start + STATUS_TIMEOUT
    /\ lastOp' = "other"
    /\ statusCache' = <<[status |-> AllFalse(c.root), timestamp |-> now]>>
    /\ lastStatus' = <<AllFalse(c.root)>>
    /\ statusLog' = Append(statusLog,
          Returned(c.id, c.start, c.cacheTs, c.root, "timeout", AllFalse(c.root), {},
                   statusCache', -1))
    /\ statusCalls' = statusCalls \ {c}
    /\ UNCHANGED <<now, statusNextId>>
    /\ StatusFrame

\* Time passes; a timer that is due fires before time passes on.
StatusTick ==
    /\ now < MaxStatusTicks * StatusTickMs
    /\ \A c \in statusCalls : now < c.start + STATUS_TIMEOUT
    /\ now' = now + StatusTickMs
    /\ lastOp' = "other"
    /\ UNCHANGED <<statusCache, lastStatus, statusCalls, statusLog, statusNextId>>
    /\ StatusFrame

\* The project files as the derivation can meet them: at most one marker
\* missing (or all), at most one failing sub-check, a constitution around the
\* size threshold, and the specs directory absent, empty or with a first entry.
ProjectFsStates ==
    /\ fsGen = 0
    /\ workspaceRoot \in {"", "/ws"}
    /\ markers \in {Markers, {}} \cup {Markers \ {m} : m \in Markers}
    /\ fsErrors \in {{}} \cup {{e} : e \in Checks}
    /\ constitutionSize \in {-1, 40, MinConstitutionBytes, MinConstitutionBytes + 1}
    /\ \/ specsDirExists = FALSE /\ firstSpecDir = <<>>
       \/ specsDirExists = TRUE
          /\ firstSpecDir \in {<<>>, <<{"spec.md"}>>, <<{"plan.md", "tasks.md"}>>, <<SpecFiles>>}

\* An initialized project with a constitution and a first specification.
ProjectFsIdle ==
    /\ workspaceRoot = "/ws" /\ markers = Markers /\ constitutionSize = 2048
    /\ firstSpecDir = << {"spec.md"} >> /\ specsDirExists = TRUE /\ fsErrors = {}
    /\ fsGen = 0

\* The user initializes the project or removes its files.
FsChange ==
    /\ fsGen < MaxFsChanges
    /\ fsGen' = fsGen + 1
    /\ \/ markers = {} /\ markers' = Markers
       \/ markers = Markers /\ markers' = {}
    /\ lastOp' = "other"
    /\ UNCHANGED <<workspaceRoot, constitutionSize, firstSpecDir, specsDirExists, fsErrors,
                   statusCache, lastStatus, statusCalls, statusLog, statusNextId, now,
                   detectionCache, cacheExpiry, detectEnv, inflight, callLog, nextId,
                   cacheGen, cachedAt>>

StatusCallsIdle ==
    statusCache = <<>> /\ lastStatus = <<>> /\ statusCalls = {} /\ statusLog = <<>>
    /\ statusNextId = 0

StatusIdle == StatusCallsIdle /\ ProjectFsIdle

\* ------------------------------------------------------------------------
\* FileWatcherService (src/src/services/fileWatcherService.ts)
\* ------------------------------------------------------------------------
\* options.debounceMs || 300
debounceMs == 300
WatcherTickMs == debounceMs \div 2

\* options.ignore: '**/.git/**', '**/node_modules/**', '**/dist/**', '**/build/**',
\* each glob a sequence of characters
ignore ==
    << <<"*", "*", "/", ".", "g", "i", "t", "/", "*", "*">>,
       <<"*", "*", "/", "n", "o", "d", "e", "_", "m", "o", "d", "u", "l", "e", "s", "/",
         "*", "*">>,
       <<"*", "*", "/", "d", "i", "s", "t", "/", "*", "*">>,
       <<"*", "*", "/", "b", "u", "i", "l", "d", "/", "*", "*">> >>

\* String.prototype.replace(/from/g, to) for a literal 'from'
RECURSIVE ReplaceAll(_, _, _, _)
ReplaceAll(s, i, from, to) ==
    IF i > Len(s) THEN <<>>
    ELSE IF i + Len(from) - 1 <= Len(s) /\ SubSeq(s, i, i + Len(from) - 1) = from
         THEN to \o ReplaceAll(s, i + Len(from), from, to)
         ELSE <<s[i]>> \o ReplaceAll(s, i + 1, from, to)

NotSlashClass == <<"[", "^", "/", "]">>

\* pattern.replace(/\*\*/g, '.*').replace(/\*/g, '[^/]*').replace(/\?/g, '[^/]'):
\* each replace works on the result of the one before it.
GlobToRegex(pattern) ==
    LET r1 == ReplaceAll(pattern, 1, <<"*", "*">>, <<".", "*">>)
        r2 == ReplaceAll(r1, 1, <<"*">>, NotSlashClass \o <<"*">>)
    IN ReplaceAll(r2, 1, <<"?">>, NotSlashClass)

\* new RegExp(source): the atoms of the expression ('.', '[^/]' or a literal
\* character), each with or without a star.
RECURSIVE RegExpAtoms(_, _)
RegExpAtoms(r, i) ==
    IF i > Len(r) THEN <<>>
    ELSE LET class == i + 3 <= Len(r) /\ SubSeq(r, i, i + 3) = NotSlashClass
             atom == IF class THEN "[^/]" ELSE IF r[i] = "." THEN "any" ELSE r[i]
             next == IF class THEN i + 4 ELSE i + 1
             star == next <= Len(r) /\ r[next] = "*"
         IN <<[atom |-> atom, star |-> star]>>
            \o RegExpAtoms(r, IF star THEN next + 1 ELSE next)

AtomMatches(atom, c) ==
    \/ atom = "any"
    \/ atom = "[^/]" /\ c # "/"
    \/ atom = c

RECURSIVE MatchAt(_, _, _, _)
MatchAt(atoms, k, s, i) ==
    IF k > Len(atoms) THEN TRUE
    ELSE IF atoms[k].star
    THEN \/ MatchAt(atoms, k + 1, s, i)
         \/ i <= Len(s) /\ AtomMatches(atoms[k].atom, s[i]) /\ MatchAt(atoms, k, s, i + 1)
    ELSE i <= Len(s) /\ AtomMatches(atoms[k].atom, s[i]) /\ MatchAt(atoms, k + 1, s, i + 1)

\* regex.test(s): the expression is not anchored
RegExpTest(r, s) ==
    LET atoms == RegExpAtoms(r, 1)
    IN \E i \in 1..(Len(s) + 1) : MatchAt(atoms, 1, s, i)

shouldIgnore(relativePath) ==
    \E k \in 1..Len(ignore) : RegExpTest(GlobToRegex(ignore[k]), relativePath)

\* Relative paths of files the registered patterns cover.
SpecifyDir == <<".", "s", "p", "e", "c", "i", "f", "y">>
ConstitutionFile == SpecifyDir \o <<"/", "m", "e", "m", "o", "r", "y", "/", "c", ".", "m", "d">>
PlanFile == SpecifyDir \o <<"/", "p", ".", "m", "d">>
NestedDistFile == SpecifyDir \o <<"/", "d", "i", "s", "t", "/", "a", ".", "j", "s">>
RootDistFile == <<"d", "i", "s", "t", "/">> \o SpecifyDir \o <<"/", "a", ".", "j", "s">>
WatchedPaths == {ConstitutionFile, PlanFile, NestedDistFile, RootDistFile}

\* shouldIgnore of each watched path
Ignored == [p \in WatchedPaths |-> shouldIgnore(p)]
EventTypes == {"created", "changed", "deleted"}

\* Only the first workspace folder is watched.
Folders == {"/ws", "/ws2"}
Listeners == {"explorer"}

\* The watcher right after its constructor: initialize() has stored the
\* workspace root, subscribed to workspace folder changes and is awaiting
\* fs.stat in watchSpecifyDirectory (auto refresh is on, the default).
WatcherConstructed(dirs) ==
    /\ wsFolder = "/ws" /\ rootDirs = dirs /\ watcherRoot = "/ws"
    /\ watchers = {} /\ disposables = 1
    /\ emitterDisposed = FALSE /\ listeners = {} /\ subscribers = {}
    /\ debounceTimer = <<>> /\ timers = {} /\ pendingChanges = <<>>
    /\ pendingStats = {[id |-> 0, kind |-> "init", root |-> "/ws", by |-> -1]}
    /\ statSeq = 1 /\ rawLog = <<>> /\ flushes = 0 /\ fireLog = <<>>
    /\ rootChanges = 0 /\ restarts = 0 /\ disposed = <<>>

\* No watcher has been constructed.
WatcherIdle ==
    /\ wsFolder = "/ws" /\ rootDirs = {} /\ watcherRoot = ""
    /\ watchers = {} /\ disposables = 0
    /\ emitterDisposed = FALSE /\ listeners = {} /\ subscribers = {}
    /\ debounceTimer = <<>> /\ timers = {} /\ pendingChanges = <<>>
    /\ pendingStats = {} /\ statSeq = 0 /\ rawLog = <<>> /\ flushes = 0 /\ fireLog = <<>>
    /\ rootChanges = 0 /\ restarts = 0 /\ disposed = <<>>

LiveWatchers(kind) == {w \in watchers : w.kind = kind /\ w.live}

\* changeEventEmitter.fire(change): the event goes to the listeners the
\* emitter holds at that moment (none once the emitter has been disposed).
Fired(type, relativePath, batch, synthetic, by, n) ==
    [type |-> type, relativePath |-> relativePath, at |-> now, batch |-> batch,
     synthetic |-> synthetic, by |-> by, n |-> n, to |-> listeners,
     restarts |-> restarts, statusDone |-> Len(statusLog)]

\* watcher.onDidChange(listener); a disposed emitter registers nothing.
Subscribe(l) ==
    /\ \A sub \in subscribers : sub.listener # l
    /\ subscribers' = subscribers \cup {[listener |-> l, restarts |-> restarts]}
    /\ listeners' = IF emitterDisposed THEN listeners ELSE listeners \cup {l}
    /\ UNCHANGED <<now, wsFolder, rootDirs, watcherRoot, watchers, disposables,
                   emitterDisposed, debounceTimer, timers, pendingChanges, pendingStats,
                   statSeq, rawLog, flushes, fireLog, rootChanges, restarts, disposed>>

\* watchSpecifyDirectory resumes after fs.stat: the subtree watches if the
\* .specify directory is there, else (watchForSpecifyCreation) a watch for
\* its creation. When the onDidCreate handler of a creation watch made the
\* call, the handler then fires the 'created' event of the directory.
WatchSpecifyDirectory(i) ==
    /\ i \in pendingStats
    /\ pendingStats' = pendingStats \ {i}
    /\ watchers' = watchers \cup
          {[id |-> i.id, kind |-> IF i.root \in rootDirs THEN "subtree" ELSE "creation",
            root |-> watcherRoot, live |-> TRUE]}
    /\ fireLog' = IF i.kind = "creation"
                  THEN Append(fireLog, Fired("created", SpecifyDir, 0, TRUE, i.by, 0))
                  ELSE fireLog
    /\ UNCHANGED <<now, wsFolder, rootDirs, watcherRoot, disposables, emitterDisposed,
                   listeners, subscribers, debounceTimer, timers, pendingChanges, statSeq,
                   rawLog, flushes, rootChanges, restarts, disposed>>

\* Mutant: the onDidCreate handler leaves its creation watch in place.
OnDidCreateKeepsWatch(w) == w

\* parentWatcher.dispose() at the start of the onDidCreate handler
OnDidCreate(w) == [w EXCEPT !.live = FALSE]

Rank(w, L) == Cardinality({v \in L : v.id < w.id})

\* The .specify directory of a folder is created: every live creation watch
\* on that folder runs its onDidCreate handler up to the fs.stat of
\* watchSpecifyDirectory.
RootCreated(f) ==
    /\ f \notin rootDirs
    /\ rootChanges < MaxRootChanges
    /\ rootChanges' = rootChanges + 1
    /\ rootDirs' = rootDirs \cup {f}
    /\ LET L == {w \in LiveWatchers("creation") : w.root = f}
       IN /\ watchers' = (watchers \ L) \cup {OnDidCreate(w) : w \in L}
          /\ pendingStats' = pendingStats \cup
                {[id |-> statSeq + Rank(w, L), kind |-> "creation", root |-> watcherRoot,
                  by |-> w.id] : w \in L}
          /\ statSeq' = statSeq + Cardinality(L)
    /\ UNCHANGED <<now, wsFolder, watcherRoot, disposables, emitterDisposed, listeners,
                   subscribers, debounceTimer, timers, pendingChanges, rawLog, flushes,
                   fireLog, restarts, disposed>>

\* The .specify directory of a folder is removed.
RootDeleted(f) ==
    /\ f \in rootDirs
    /\ rootChanges < MaxRootChanges
    /\ rootChanges' = rootChanges + 1
    /\ rootDirs' = rootDirs \ {f}
    /\ UNCHANGED <<now, wsFolder, watcherRoot, watchers, disposables, emitterDisposed,
                   listeners, subscribers, debounceTimer, timers, pendingChanges,
                   pendingStats, statSeq, rawLog, flushes, fireLog, restarts, disposed>>

\* Mutant: the first change recorded for a path is kept.
PendingSetKeepsFirst(map, change) ==
    IF \E k \in 1..Len(map) : map[k].relativePath = change.relativePath
    THEN map
    ELSE Append(map, change)

\* this.pendingChanges.set(relativePath, change)
PendingSet(map, change) ==
    IF \E k \in 1..Len(map) : map[k].relativePath = change.relativePath
    THEN [k \in 1..Len(map) |->
             IF map[k].relativePath = change.relativePath THEN change ELSE map[k]]
    ELSE Append(map, change)

\* Mutant: a new timer is set without clearing the one before.
scheduleDebouncedEmitNoClear(armed, handle, id) ==
    armed \cup {[id |-> id, due |-> now + debounceMs]}

\* Mutant: no timer is set.
scheduleDebouncedEmitNever(armed, handle, id) == armed

\* clearTimeout(this.debounceTimer), then setTimeout(..., debounceMs)
scheduleDebouncedEmit(armed, handle, id) ==
    {t \in armed : handle = <<>> \/ t.id # handle[1]}
        \cup {[id |-> id, due |-> now + debounceMs]}

\* A raw event of a subtree watch: handleFileChange(type, uri).
HandleFileChange(type, relativePath) ==
    /\ Len(rawLog) < MaxRawEvents
    /\ LiveWatchers("subtree") # {}
    /\ LET n == Len(rawLog) + 1
           ignored == Ignored[relativePath]
       IN /\ rawLog' = Append(rawLog,
                [type |-> type, relativePath |-> relativePath, at |-> now,
                 ignored |-> ignored, batch |-> flushes + 1])
          /\ IF ignored
             THEN UNCHANGED <<pendingChanges, timers, debounceTimer>>
             ELSE /\ pendingChanges' = PendingSet(pendingChanges,
                        [type |-> type, relativePath |-> relativePath, n |-> n])
                  /\ timers' = scheduleDebouncedEmit(timers, debounceTimer, n)
                  /\ debounceTimer' = <<n>>
    /\ UNCHANGED <<now, wsFolder, rootDirs, watcherRoot, watchers, disposables,
                   emitterDisposed, listeners, subscribers, pendingStats, statSeq, flushes,
                   fireLog, rootChanges, restarts, disposed>>

\* A debounce timer fires: emitPendingChanges().
EmitPendingChanges(t) ==
    /\ t \in timers
    /\ now >= t.due
    /\ timers' = timers \ {t}
    /\ IF pendingChanges = <<>>
       THEN UNCHANGED <<pendingChanges, fireLog, flushes>>
       ELSE /\ fireLog' = fireLog \o
                  [k \in 1..Len(pendingChanges) |->
                      Fired(pendingChanges[k].type, pendingChanges[k].relativePath,
                            flushes + 1, FALSE, -1, pendingChanges[k].n)]
            /\ pendingChanges' = <<>>
            /\ flushes' = flushes + 1
    /\ UNCHANGED <<now, wsFolder, rootDirs, watcherRoot, watchers, disposables,
                   emitterDisposed, listeners, subscribers, debounceTimer, pendingStats,
                   statSeq, rawLog, rootChanges, restarts, disposed>>

\* Time passes; a timer that is due fires before time passes on.
WatcherTick ==
    /\ now < MaxWatcherTicks * WatcherTickMs \/ timers # {}
    /\ \A t \in timers : now < t.due
    /\ \A c \in statusCalls : now < c.start + STATUS_TIMEOUT
    /\ now' = now + WatcherTickMs
    /\ UNCHANGED <<wsFolder, rootDirs, watcherRoot, watchers, disposables, emitterDisposed,
                   listeners, subscribers, debounceTimer, timers, pendingChanges,
                   pendingStats, statSeq, rawLog, flushes, fireLog, rootChanges, restarts,
                   disposed>>

\* The body of dispose(): the timer of this.debounceTimer is cleared, the
\* pending changes are dropped, every watch and the emitter are disposed.
dispose ==
    /\ timers' = {t \in timers : debounceTimer = <<>> \/ t.id # debounceTimer[1]}
    /\ debounceTimer' = <<>>
    /\ pendingChanges' = <<>>
    /\ flushes' = flushes + 1
    /\ watchers' = {}
    /\ emitterDisposed' = TRUE
    /\ listeners' = {}

\* dispose() called by the owner of the watcher.
Dispose ==
    /\ disposed = <<>>
    /\ dispose
    /\ disposables' = 0
    /\ disposed' = <<Len(fireLog)>>
    /\ UNCHANGED <<now, wsFolder, rootDirs, watcherRoot, subscribers, pendingStats, statSeq,
                   rawLog, fireLog, rootChanges, restarts>>

\* restart(), called directly or by the onDidChangeWorkspaceFolders listener
\* after the first folder became f: dispose(), then initialize() up to the
\* fs.stat of watchSpecifyDirectory.
Restart(f) ==
    /\ disposed = <<>>
    /\ restarts < MaxRestarts
    /\ f # wsFolder => disposables > 0
    /\ restarts' = restarts + 1
    /\ dispose
    /\ wsFolder' = f
    /\ watcherRoot' = f
    /\ disposables' = 1
    /\ pendingStats' = pendingStats \cup
          {[id |-> statSeq, kind |-> "init", root |-> f, by |-> -1]}
    /\ statSeq' = statSeq + 1
    /\ UNCHANGED <<now, rootDirs, subscribers, rawLog, fireLog, rootChanges, disposed>>

\* The template createConstitution writes is longer than the threshold.
WrittenConstitutionBytes == 4 * MinConstitutionBytes

\* SpecKitCliService.createConstitution writes .specify/memory/constitution.md;
\* a live subtree watch reports the file as created or changed.
CreateConstitution ==
    /\ fsGen < MaxFsChanges
    /\ fsGen' = fsGen + 1
    /\ constitutionSize' = WrittenConstitutionBytes
    /\ HandleFileChange(IF constitutionSize < 0 THEN "created" ELSE "changed",
                        ConstitutionFile)
    /\ UNCHANGED <<workspaceRoot, markers, firstSpecDir, specsDirExists, fsErrors,
                   statusCache, lastStatus, statusCalls, statusLog, statusNextId>>
    /\ UNCHANGED <<runnerVars, locatorVars, sanitizerVars, commandVars, detectionCache,
                   cacheExpiry, detectEnv, inflight, callLog, nextId, cacheGen, cachedAt,
                   lastOp>>

\* ------------------------------------------------------------------------
\* Specifications
\* ------------------------------------------------------------------------
\* A step of one component leaves the other components alone.
Runner(A) ==
    A /\ UNCHANGED <<locatorVars, detectVars, statusVars, sanitizerVars, commandVars, watcherVars>>
Locator(A) ==
    A /\ UNCHANGED <<runnerVars, detectVars, statusVars, sanitizerVars, commandVars, watcherVars>>
Detector(A) ==
    A /\ UNCHANGED <<runnerVars, locatorVars, statusVars, sanitizerVars, commandVars, watcherVars>>
Status(A) ==
    A /\ UNCHANGED <<runnerVars, locatorVars, sanitizerVars, commandVars, watcherVars>>
Sanitizer(A) ==
    A /\ UNCHANGED <<runnerVars, locatorVars, detectVars, statusVars, commandVars, watcherVars>>
Watcher(A) ==
    A /\ UNCHANGED <<runnerVars, locatorVars, statusVars, sanitizerVars, commandVars,
                     detectionCache, cacheExpiry, detectEnv, inflight, callLog, nextId,
                     cacheGen, cachedAt, lastOp>>
Command(A) ==
    A /\ UNCHANGED <<runnerVars, detectVars, statusVars, sanitizerVars, watcherVars>>

\* One runCommandWithPath call at a time, in every interleaving of its events.
RunnerInit ==
    /\ RunnerIdle /\ calls = 0 /\ LocatorIdle /\ DetectIdle /\ DetectEnvIdle /\ StatusIdle
    /\ SanitizerIdle /\ CommandIdle /\ WatcherIdle

RunnerNext ==
    \/ \E t \in Timeouts, ok \in BOOLEAN : Runner(RunCommandWithPath(t, ok))
    \/ \E c \in Chunks : Runner(StdoutData(c))
    \/ \E c \in Chunks : Runner(StderrData(c))
    \/ \E code \in ExitCodes : Runner(ChildExit(code))
    \/ Runner(OnTimeout)
    \/ Runner(OnClose)
    \/ Runner(OnError)
    \/ Runner(RunnerTick)

SpecRunner == RunnerInit /\ [][RunnerNext]_vars

\* findCliPath in every environment.
LocatorSpecInit ==
    /\ LocatorInit /\ RunnerIdle /\ calls = 0 /\ DetectIdle /\ DetectEnvIdle /\ StatusIdle
    /\ SanitizerIdle /\ CommandIdle /\ WatcherIdle

LocatorNext == Locator(FindCliPath)

SpecLocator == LocatorSpecInit /\ [][LocatorNext]_vars

\* The detection cache over time: concurrent detectCli calls, clearCache and
\* an installation that comes and goes.
InstallEnvs ==
    {e \in DetectEnvs : /\ e[1] = "" /\ e[3] # "" /\ e[4] # "specify-cn"
                        /\ e[3] = "throws" => e[4] = "fail"}

DetectInit ==
    /\ DetectIdle /\ \E e \in InstallEnvs : EnvIs(e)
    /\ StatusIdle /\ RunnerIdle /\ calls = 0 /\ LocatorIdle
    /\ SanitizerIdle /\ CommandIdle /\ WatcherIdle

DetectNext ==
    \/ \E force \in BOOLEAN : Detector(DetectCliStart("detectCli", force))
    \/ \E c \in inflight : Detector(DetectCliFinish(c))
    \/ Detector(ClearCache)
    \/ \E e \in InstallEnvs : Detector(EnvChange(e))
    \/ Detector(Tick)

SpecDetect == DetectInit /\ [][DetectNext]_vars

\* The public operations of both services in every installation: detectCli
\* and the run methods of SpecifyCliService, or commands of SpecKitCliService
\* run through runCommandWithPath (the two services share no state, so a
\* behaviour exercises one of them, one call after the other).
FacadeInit ==
    /\ DetectIdle /\ \E e \in DetectEnvs : EnvIs(e)
    /\ StatusIdle /\ RunnerIdle /\ calls = 0 /\ LocatorIdle
    /\ SanitizerIdle /\ CommandIdle /\ WatcherIdle

FacadeNext ==
    \/ \E op \in Ops, force \in BOOLEAN :
          calls = 0 /\ inflight = {} /\ Detector(DetectCliStart(op, force))
    \/ \E c \in inflight : Detector(DetectCliFinish(c))
    \/ \E c \in inflight, exec \in ExecOutcomes : Detector(ExecFileDone(c, exec))
    \/ \E t \in Timeouts, ok \in BOOLEAN :
          nextId = 0 /\ Runner(RunCommandWithPath(t, ok))
    \/ \E code \in ExitCodes : Runner(ChildExit(code))
    \/ Runner(OnTimeout)
    \/ Runner(OnClose)
    \/ Runner(OnError)
    \/ Runner(RunnerTick)

SpecFacade == FacadeInit /\ [][FacadeNext]_vars

\* Both cache slots and clearCache.
CachesNext ==
    \/ Detector(DetectCliStart("detectCli", FALSE))
    \/ \E c \in inflight : Detector(DetectCliFinish(c))
    \/ Detector(ClearCache)
    \/ Status(GetProjectStatusStart)
    \/ \E c \in statusCalls : Status(RunProjectStatusInternal(c))
    \/ \E c \in statusCalls : Status(GetProjectStatusDone(c))

SpecCaches == DetectInit /\ [][CachesNext]_vars

\* getProjectStatus on every project layout, with the clock standing still.
DeriveInit ==
    /\ StatusCallsIdle /\ ProjectFsStates
    /\ DetectIdle /\ DetectEnvIdle /\ RunnerIdle /\ calls = 0 /\ LocatorIdle
    /\ SanitizerIdle /\ CommandIdle /\ WatcherIdle

DeriveNext ==
    \/ Status(GetProjectStatusStart)
    \/ \E c \in statusCalls : Status(RunProjectStatusInternal(c))
    \/ \E c \in statusCalls : Status(GetProjectStatusDone(c))

SpecDerive == DeriveInit /\ [][DeriveNext]_vars

\* getProjectStatus over time: overlapping calls, the 3000 ms timer, the cache
\* lifetime, and a project that is initialized or removed meanwhile.
StatusInit ==
    /\ StatusIdle
    /\ DetectIdle /\ DetectEnvIdle /\ RunnerIdle /\ calls = 0 /\ LocatorIdle
    /\ SanitizerIdle /\ CommandIdle /\ WatcherIdle

StatusNext ==
    \/ Status(GetProjectStatusStart)
    \/ \E c \in statusCalls : Status(RunProjectStatusInternal(c))
    \/ \E c \in statusCalls : Status(GetProjectStatusDone(c))
    \/ \E c \in statusCalls : Status(GetProjectStatusTimeout(c))
    \/ Status(StatusTick)
    \/ Status(FsChange)

SpecStatus == StatusInit /\ [][StatusNext]_vars

\* stripAnsi and the version extraction on every text.
SanitizeInit ==
    /\ SanitizerInit /\ CommandIdle /\ WatcherIdle
    /\ RunnerIdle /\ calls = 0 /\ LocatorIdle /\ DetectIdle /\ DetectEnvIdle /\ StatusIdle

SanitizeNext ==
    \/ Sanitizer(StripOnce)
    \/ Sanitizer(StripTwice)
    \/ Sanitizer(GetCliVersion)

SpecSanitize == SanitizeInit /\ [][SanitizeNext]_vars

\* The commands of SpecKitCliService, one after the other, where only the
\* configured path and the bare names can exist.
CommandInit ==
    /\ LocatorInit /\ homeSet = FALSE
    /\ CommandIdle /\ SanitizerIdle /\ WatcherIdle
    /\ RunnerIdle /\ calls = 0 /\ DetectIdle /\ DetectEnvIdle /\ StatusIdle

CommandNext ==
    \E m \in Methods, outcome \in Outcomes, out \in CommandTexts, err \in ErrorTexts :
        Command(KitCommand(m, outcome, out, err))

SpecCommand == CommandInit /\ [][CommandNext]_vars

\* The debouncer of a watcher whose .specify directory exists: raw events,
\* the debounce timer and the emission. Timers fire and time passes.
DebounceInit ==
    /\ WatcherConstructed({"/ws"})
    /\ RunnerIdle /\ calls = 0 /\ LocatorIdle /\ DetectIdle /\ DetectEnvIdle /\ StatusIdle
    /\ SanitizerIdle /\ CommandIdle

DebounceNext ==
    \/ \E l \in Listeners : Watcher(Subscribe(l))
    \/ \E i \in pendingStats : Watcher(WatchSpecifyDirectory(i))
    \/ \E type \in EventTypes, p \in WatchedPaths \ {ConstitutionFile} :
          Watcher(HandleFileChange(type, p))
    \/ \E t \in timers : Watcher(EmitPendingChanges(t))
    \/ Watcher(WatcherTick)

SpecDebounce ==
    /\ DebounceInit /\ [][DebounceNext]_vars
    /\ WF_vars(\E t \in timers : Watcher(EmitPendingChanges(t)))
    /\ WF_vars(Watcher(WatcherTick))

\* A watcher constructed with or without a .specify directory, which is then
\* created and removed while the watcher runs.
RootCreationInit ==
    /\ \E dirs \in {{}, {"/ws"}} : WatcherConstructed(dirs)
    /\ RunnerIdle /\ calls = 0 /\ LocatorIdle /\ DetectIdle /\ DetectEnvIdle /\ StatusIdle
    /\ SanitizerIdle /\ CommandIdle

RootCreationNext ==
    \/ \E l \in Listeners : Watcher(Subscribe(l))
    \/ \E i \in pendingStats : Watcher(WatchSpecifyDirectory(i))
    \/ Watcher(RootCreated("/ws"))
    \/ Watcher(RootDeleted("/ws"))
    \/ Watcher(HandleFileChange("changed", PlanFile))
    \/ \E t \in timers : Watcher(EmitPendingChanges(t))
    \/ Watcher(WatcherTick)

SpecRootCreation == RootCreationInit /\ [][RootCreationNext]_vars

\* The whole life of a watcher: initialization, root creation, raw events,
\* dispose() and restart() in every interleaving with the pending fs.stat.
WatcherNext ==
    \/ \E l \in Listeners : Watcher(Subscribe(l))
    \/ \E i \in pendingStats : Watcher(WatchSpecifyDirectory(i))
    \/ Watcher(RootCreated(wsFolder))
    \/ Watcher(RootDeleted(wsFolder))
    \/ Watcher(HandleFileChange("changed", PlanFile))
    \/ \E t \in timers : Watcher(EmitPendingChanges(t))
    \/ Watcher(WatcherTick)
    \/ Watcher(Dispose)
    \/ \E f \in Folders : Watcher(Restart(f))

SpecWatcher == RootCreationInit /\ [][WatcherNext]_vars

\* The watcher next to getProjectStatus: a constitution is written while a
\* status is cached.
InvalidateInit ==
    /\ WatcherConstructed({"/ws"})
    /\ StatusCallsIdle
    /\ workspaceRoot = "/ws" /\ markers = Markers /\ constitutionSize = -1
    /\ firstSpecDir = <<>> /\ specsDirExists = FALSE /\ fsErrors = {} /\ fsGen = 0
    /\ RunnerIdle /\ calls = 0 /\ LocatorIdle /\ DetectIdle /\ DetectEnvIdle
    /\ SanitizerIdle /\ CommandIdle

InvalidateNext ==
    \/ \E l \in Listeners : Watcher(Subscribe(l))
    \/ \E i \in pendingStats : Watcher(WatchSpecifyDirectory(i))
    \/ CreateConstitution
    \/ \E t \in timers : Watcher(EmitPendingChanges(t))
    \/ Watcher(WatcherTick)
    \/ Status(GetProjectStatusStart)
    \/ \E c \in statusCalls : Status(RunProjectStatusInternal(c))
    \/ \E c \in statusCalls : Status(GetProjectStatusDone(c))

SpecInvalidate == InvalidateInit /\ [][InvalidateNext]_vars

\* ------------------------------------------------------------------------
\* Properties of the runner
\* ------------------------------------------------------------------------
\* The value the promise of the call carries: the first value given to resolve().
Resolved == resolveLog # <<>>
Result == resolveLog[1]

\* C1: when the timeout timer is the first completion event of a call, the
\* child has been killed and the call's result is success=false, exitCode=-1
\* with an error message that names the configured timeout (in seconds);
\* it is never a successful result.
C1_TimeoutFirst ==
    (eventLog # <<>> /\ eventLog[1] = "timeout") =>
        /\ childKilled
        /\ Resolved
        /\ Result.success = FALSE
        /\ Result.exitCode = -1
        /\ Result.error.kind = "timeout"
        /\ Result.error.seconds * MsPerSecond = timeout

\* The timer fired first, with output already captured, and 'close' came later.
C1_Witness ==
    /\ eventLog = <<"timeout", "close">>
    /\ stdout # <<>>
    /\ exitCode = <<0>>

\* The kind of result each completion event produces.
KindOf(ev) ==
    CASE ev = "timeout" -> "timeout"
      [] ev = "close" -> "stderr"
      [] ev = "error" -> "spawn"

\* C2: under every interleaving of timer, 'close' and 'error', resolve() is
\* called exactly once, by the first event; later events change nothing; and
\* when 'close' or 'error' came first the timer is no longer pending and the
\* child was never killed.
C2_ResolvedOnce ==
    /\ Len(resolveLog) <= 1
    /\ isResolved <=> Resolved
    /\ eventLog # <<>> =>
          /\ Resolved
          /\ Result.error.kind = KindOf(eventLog[1])
          /\ eventLog[1] \in {"close", "error"} =>
                (timeoutId = "cleared" /\ ~childKilled)

\* A failed spawn: 'error' resolved the call, the later 'close' was a no-op.
C2_Witness ==
    /\ eventLog = <<"error", "close">>
    /\ Len(resolveLog) = 1

\* C3: a call whose spawn failed at the OS level is resolved by the 'error'
\* event before any time passes: success=false with the spawn error as the
\* error, the timer cancelled, and never the timeout message.
C3_SpawnError ==
    (calls > 0 /\ spawnFailed) =>
        \/ (child = "failed" /\ elapsed = 0 /\ ~Resolved)
        \/ /\ Resolved
           /\ Result = ErrorResult
           /\ eventLog[1] = "error"
           /\ timeoutId = "cleared"

\* The spawn failed and the call is resolved while no time has passed.
C3_Witness ==
    /\ spawnFailed
    /\ Resolved
    /\ Result.error.kind = "spawn"
    /\ elapsed = 0
    /\ child = "errored"

\* C4 (as stated): a call whose captured stdout or stderr exceeds the 10MB
\* ceiling resolves as a failure with a buffer-overflow error; a successful
\* result carries the whole output.
C4_AsStated ==
    Resolved =>
        /\ (Bytes(Result.output) > maxBuffer \/ Bytes(Result.error.text) > maxBuffer) =>
              (Result.success = FALSE /\ Result.error.kind = "overflow")
        /\ Result.success => Result.output = stdout

\* ------------------------------------------------------------------------
\* Properties of findCliPath
\* ------------------------------------------------------------------------
First(S) == CHOOSE k \in S : \A j \in S : k <= j

Located == foundPath # ""

\* The order findCliPath follows: this.cliPath (the configured path, or the
\* bare name when none is configured), the user .local/bin paths of the
\* platform as listed, then the bare names.
CodeOrder ==
    <<cliPath>>
    \o (IF ~homeSet THEN <<>>
        ELSE IF platform = "win32"
        THEN << "%USERPROFILE%\\.local\\bin\\specify-cn.exe",
                "%USERPROFILE%\\.local\\bin\\specify-cn",
                "%USERPROFILE%\\.local\\bin\\specify-cn.cmd",
                "%USERPROFILE%\\.local\\bin\\specify-cn.bat" >>
        ELSE << "$HOME/.local/bin/specify-cn", "$HOME/.local/bin/specify-cn.exe" >>)
    \o <<"specify-cn", "specify-cn.exe">>

\* Candidate k of CodeOrder passes: the liveness check of this.cliPath, or a
\* file that exists and whose '--help' run succeeds.
Passes(k) ==
    IF k = 1
    THEN IF platform = "win32" THEN cmdOk \/ psOk ELSE cliPath \in runs
    ELSE CodeOrder[k] \in exists /\ CodeOrder[k] \in runs

Passing == {k \in 1..Len(CodeOrder) : Passes(k)}

ClaimOrder ==
    (IF cliPath = "specify-cn" THEN <<>> ELSE <<cliPath>>)
    \o (IF homeSet THEN UserLocalBinPaths(platform) ELSE <<>>)
    \o <<"specify-cn">>

ClaimSucceeds(k) ==
    LET p == ClaimOrder[k]
    IN IF p = "specify-cn" THEN p \in runs
       ELSE IF p = cliPath THEN Passes(1)
       ELSE p \in exists /\ p \in runs

ClaimSucceeding == {k \in 1..Len(ClaimOrder) : ClaimSucceeds(k)}

Entries == {callLog[k] : k \in 1..Len(callLog)}
RunOps == Ops \ {"detectCli"}

NoUsableCandidate ==
    /\ ~(customPath # "" /\ onDisk /\ versionRun # "fail")
    /\ onPath \in {"", "throws"}

\* C6 (as stated): when no candidate yields a usable executable, a detection
\* returns found=false with a non-empty error.
C6_AsStated ==
    \A e \in Entries :
        (e.op = "detectCli" /\ ~e.hit /\ NoUsableCandidate) =>
            (e.outcome = "resolved" /\ e.res.found = FALSE /\ e.res.error # "")

\* C8 (as stated): a configured path that exists on disk but fails its
\* liveness check is not reported as found.
C8_AsStated ==
    \A e \in Entries :
        (~e.hit /\ customPath # "" /\ onDisk /\ versionRun = "fail") =>
            ~(e.res.found /\ e.res.path = customPath)

\* C9: a detectCli call returns the cached result, without any probe, exactly
\* when it is not forced and starts less than CACHE_DURATION after the
\* current entry was stored (and not cleared since); calls served by the same
\* entry return identical results; every other call probes and its result
\* becomes the entry, valid for CACHE_DURATION from the moment it is stored.
C9_CacheWindow ==
    /\ \A e \in Entries :
          /\ e.hit <=> (~e.force /\ e.cachedAt >= 0
                          /\ e.start < e.cachedAt + (5 * 60 * 1000))
          /\ e.hit => e.probes = 0
          /\ ~e.hit => e.probes >= 1
    /\ \A e, f \in Entries : e.gen = f.gen => e.res = f.res
    /\ detectionCache # <<>> =>
          /\ cachedAt >= 0
          /\ cacheExpiry = cachedAt + (5 * 60 * 1000)
          /\ \E e \in Entries : ~e.hit /\ e.gen = cacheGen /\ e.res = detectionCache[1]

\* A second call, half a CACHE_DURATION after the first result was cached, returned
\* that result although the installation has changed meanwhile.
C9_Witness ==
    /\ Len(callLog) = 2
    /\ ~callLog[1].hit
    /\ callLog[2].hit /\ callLog[2].gen = callLog[1].gen
    /\ callLog[2].start = callLog[2].cachedAt + TickMs
    /\ callLog[2].res = callLog[1].res
    /\ Detection.res # callLog[2].res

Sanitized(s) ==
    /\ \A k \in 1..Len(s) : s[k] \notin ControlChars
    /\ \A k \in 1..Len(SplitLines(s)) :
          LET line == SplitLines(s)[k]
          IN ~BorderOnly(line) /\ ArtCount(line) <= 5

\* C11 (as stated): the output and the error of every result a command method
\* returns are sanitized.
C11_AsStated ==
    returned # <<>> => (Sanitized(returned[1].output) /\ Sanitized(returned[1].error))

\* C12 (as stated): a command that follows an earlier one (whose location of
\* the executable still stands) probes nothing and spawns exactly one child.
C12_AsStated == commands >= 2 => spawns = 1

\* C13: sanitizing a sanitized text changes nothing.
C13_Idempotent == pass2 # <<>> => pass2[1] = pass1[1]

\* An escape character in front of a colour sequence and the tail of a second
\* one: removing the sequence puts the pieces of another side by side.
C13_Witness ==
    /\ pass2 # <<>>
    /\ text = <<ESC>> \o Colour \o <<"[", "7", "m">>
    /\ pass1[1] = <<"[", "7", "m">>

\* The visible text of the lines of a scenario that are not banner art.
RECURSIVE PlainLines(_, _)
PlainLines(sc, k) ==
    IF k > Len(sc) THEN <<>>
    ELSE (IF sc[k].art THEN <<>> ELSE <<sc[k].plain>>) \o PlainLines(sc, k + 1)

HasVersionLine(sc) == \E k \in 1..Len(sc) : sc[k].plain \in {Version, <<"x", " ">> \o Version}

\* C14: for a text made of colour sequences, banner lines and text lines, the
\* sanitized text has no escape character and is exactly the visible text of
\* the lines that are not banner art (a line of more than 5 glyphs or of
\* border characters only), and with a version line among them the version
\* extraction yields that version number.
C14_BannerAndVersion ==
    scenario # <<>> =>
        /\ pass1 # <<>> =>
              /\ \A k \in 1..Len(pass1[1]) : pass1[1][k] # ESC
              /\ pass1[1] = Trim(JoinLines(PlainLines(scenario, 1)))
        /\ (versionOut # <<>> /\ HasVersionLine(scenario)) =>
              versionOut[1] = <<"v">> \o Version

\* A coloured banner, a line of exactly 5 glyphs with text, and the version line.
C14_Witness ==
    /\ Len(scenario) = 3
    /\ scenario[1].art /\ ArtCount(scenario[1].plain) > 5 /\ scenario[1].chars[1] = ESC
    /\ ~scenario[2].art /\ ArtCount(scenario[2].plain) = 5
    /\ scenario[3].chars = Colour \o Version \o Reset
    /\ pass1 # <<>> /\ versionOut = <<(<<"v">> \o Version)>>

\* ------------------------------------------------------------------------
\* Properties of getProjectStatus
\* ------------------------------------------------------------------------
StatusEntries == {statusLog[k] : k \in 1..Len(statusLog)}

\* The four marker directories exist and checking them raised no error.
AllMarkersFound == Markers \subseteq markers /\ Markers \cap fsErrors = {}

OthersFalse(st) ==
    ~st.hasConstitution /\ ~st.hasSpecification /\ ~st.hasPlan /\ ~st.hasTasks

\* C15: in every status returned or cached, isInitialized=false implies that
\* the four other flags are false, and isInitialized=true implies that all
\* four marker directories were found.
C15_ShortCircuit ==
    /\ \A e \in StatusEntries :
          /\ ~e.status.isInitialized => OthersFalse(e.status)
          /\ e.status.isInitialized => AllMarkersFound
    /\ statusCache # <<>> =>
          /\ ~statusCache[1].status.isInitialized => OthersFalse(statusCache[1].status)
          /\ statusCache[1].status.isInitialized => AllMarkersFound

\* One marker is missing while a large constitution and all spec files exist.
C15_Witness ==
    /\ markers # {} /\ markers # Markers /\ fsErrors = {}
    /\ constitutionSize > 100 /\ firstSpecDir = <<SpecFiles>>
    /\ \E e \in StatusEntries : e.how = "derived" /\ ~e.status.isInitialized
    /\ statusCache # <<>>

\* C16: without a workspace root the status is all false with an empty root
\* and nothing is read; with a root whose markers are not all found it is all
\* false with that root and only the four markers are read.
C16_NoNeedlessReads ==
    \A e \in StatusEntries :
        /\ e.root = "" => (e.status = AllFalse("") /\ e.reads = {})
        /\ (e.how = "derived" /\ ~AllMarkersFound) =>
              (e.status = AllFalse(e.root) /\ e.reads = Markers)

\* No marker exists under the root, a constitution and spec files do.
C16_Witness ==
    /\ workspaceRoot = "/ws" /\ markers = {}
    /\ constitutionSize > 100 /\ specsDirExists /\ firstSpecDir # <<>>
    /\ \E e \in StatusEntries : e.how = "derived" /\ e.reads = Markers

\* C17: a call whose derivation is not done when 3000 ms have passed returns
\* the all-false status of its root at that moment, the cache then holds that
\* status with the timestamp of that moment, and no call is pending longer.
C17_Ceiling ==
    /\ \A e \in StatusEntries :
          e.how = "timeout" =>
              /\ e.status = AllFalse(e.root)
              /\ e.stored = <<[status |-> AllFalse(e.root), timestamp |-> e.end]>>
              /\ e.end = e.start + 3000
    /\ \A c \in statusCalls : now <= c.start + 3000
    /\ \A e \in StatusEntries : e.end <= e.start + 3000

\* Two overlapping calls in an initialized project: the derivation of the
\* first finished in time, the timer won for the second.
C17_Witness ==
    /\ Len(statusLog) = 2
    /\ statusLog[1].how = "derived" /\ statusLog[1].status.isInitialized
    /\ statusLog[2].how = "timeout" /\ AllMarkersFound
    /\ statusCache = statusLog[2].stored

\* The status the project would have if no sub-check failed.
Ideal ==
    LET init == Markers \subseteq markers
        files == IF init /\ specsDirExists /\ firstSpecDir # <<>>
                 THEN firstSpecDir[1] ELSE {}
    IN [isInitialized |-> init,
        hasConstitution |-> init /\ constitutionSize > 100,
        hasSpecification |-> "spec.md" \in files,
        hasPlan |-> "plan.md" \in files,
        hasTasks |-> "tasks.md" \in files]

Flags == {"isInitialized", "hasConstitution", "hasSpecification", "hasPlan", "hasTasks"}

\* The flags a failing sub-check decides.
Affected(check) ==
    CASE check \in Markers -> Flags
      [] check \in {ConstitutionAccess, ConstitutionStat} -> {"hasConstitution"}
      [] check \in {SpecsAccess, SpecsReaddir} -> {"hasSpecification", "hasPlan", "hasTasks"}
      [] check = "spec.md" -> {"hasSpecification"}
      [] check = "plan.md" -> {"hasPlan"}
      [] OTHER -> {"hasTasks"}

\* C18: a failing sub-check never makes getProjectStatus fail or fall back to
\* the default status: the flags it decides are false and every other flag
\* has the value it has without the failure.
C18_ErrorsSwallowed ==
    \A e \in StatusEntries :
        /\ e.how \in {"derived", "cache", "noRoot"}
        /\ (e.root # "" /\ fsErrors # {}) =>
              \A check \in fsErrors : \A f \in Flags :
                  IF f \in Affected(check) THEN e.status[f] = FALSE
                  ELSE e.status[f] = Ideal[f]

\* fs.stat fails on a large constitution in an initialized project with a
\* specification: only hasConstitution is lost.
C18_Witness ==
    /\ fsErrors = {ConstitutionStat} /\ constitutionSize > 100
    /\ \E e \in StatusEntries :
          /\ e.how = "derived"
          /\ e.status.isInitialized /\ ~e.status.hasConstitution
          /\ e.status.hasSpecification

\* C19: in an initialized project hasConstitution is true exactly when the
\* constitution file exists (and can be read) with more than 100 bytes.
C19_ConstitutionThreshold ==
    \A e \in StatusEntries :
        e.status.isInitialized =>
            (e.status.hasConstitution <=>
                (/\ constitutionSize >= 0
                 /\ constitutionSize > 100
                 /\ fsErrors \cap {ConstitutionAccess, ConstitutionStat} = {}))

\* A constitution of exactly 100 bytes in an initialized project.
C19_Witness ==
    /\ constitutionSize = 100 /\ fsErrors = {}
    /\ \E e \in StatusEntries :
          e.how = "derived" /\ e.status.isInitialized /\ ~e.status.hasConstitution

\* C20: a call returns the cached status, reading nothing, exactly when an
\* entry exists whose timestamp is less than 5000 ms before the call; every
\* other call replaces the entry by the status it returns, stamped with the
\* time it returns; so a returned status is never older than 5000 ms.
C20_StatusWindow ==
    \A e \in StatusEntries :
        /\ e.how = "cache" <=> (e.cacheTs >= 0 /\ e.start - e.cacheTs < 5000)
        /\ e.how = "cache" =>
              /\ e.reads = {} /\ e.end = e.start
              /\ e.stored # <<>> /\ e.stored[1].timestamp = e.cacheTs
              /\ e.status = e.stored[1].status
        /\ e.how # "cache" =>
              e.stored = <<[status |-> e.status, timestamp |-> e.end]>>
        /\ e.how = "derived" => e.reads # {}
        /\ e.end - e.stored[1].timestamp < 5000

\* The second call comes when the entry of the first is exactly 5000 ms old
\* and the project has been removed meanwhile: it recomputes.
C20_Witness ==
    /\ Len(statusLog) = 2
    /\ statusLog[1].how = "derived" /\ statusLog[1].status.isInitialized
    /\ statusLog[2].how = "derived" /\ ~statusLog[2].status.isInitialized
    /\ statusLog[2].start = statusLog[1].end + 5000
    /\ statusCache = statusLog[2].stored

\* ------------------------------------------------------------------------
\* Properties of the results of the runner (C28)
\* ------------------------------------------------------------------------
\* C28 (as stated): in every result the runner resolves, success is true
\* exactly when exitCode is 0; a child that closes without an exit code is
\* never reported with exitCode 0 and success false.
C28_AsStated ==
    \A k \in 1..Len(resolveLog) :
        resolveLog[k].success <=> (resolveLog[k].exitCode = 0)

\* ------------------------------------------------------------------------
\* Properties of overlapping getProjectStatus calls (C30)
\* ------------------------------------------------------------------------
\* C30 (as stated): when calls miss the cache concurrently each runs its own
\* derivation, the call that finishes last leaves its status in the cache
\* stamped with its finish time, and no call caches a status derived from an
\* older state of the project files than a status cached or returned before.
C30_AsStated ==
    \A j \in 1..Len(statusLog) :
        statusLog[j].how = "derived" =>
            /\ statusLog[j].reads # {}
            /\ statusLog[j].stored =
                  <<[status |-> statusLog[j].status, timestamp |-> statusLog[j].end]>>
            /\ \A i \in 1..(j - 1) :
                  statusLog[i].how = "derived" => statusLog[i].gen <= statusLog[j].gen

\* ------------------------------------------------------------------------
\* Properties of the debouncer of FileWatcherService (C22, C23, C24, C29)
\* ------------------------------------------------------------------------
Max(S) == CHOOSE k \in S : \A j \in S : j <= k

\* The accepted raw events and the emitted events of the b-th debounce window
RawIn(b) == {k \in 1..Len(rawLog) : rawLog[k].batch = b /\ ~rawLog[k].ignored}
FiredIn(b) == {k \in 1..Len(fireLog) : ~fireLog[k].synthetic /\ fireLog[k].batch = b}
RawOn(b, p) == {k \in RawIn(b) : rawLog[k].relativePath = p}
FiredOn(b, p) == {k \in FiredIn(b) : fireLog[k].relativePath = p}
Emitted == {b \in 1..flushes : FiredIn(b) # {}}

\* C22: the accepted raw events that arrive on one relative path inside one
\* debounce window yield exactly one emitted event for that path when the
\* window closes, and its type is the type of the last of them.
C22_Collapse ==
    \A b \in Emitted :
        \A p \in WatchedPaths :
            IF RawOn(b, p) = {}
            THEN FiredOn(b, p) = {}
            ELSE /\ Cardinality(FiredOn(b, p)) = 1
                 /\ \A k \in FiredOn(b, p) : fireLog[k].type = rawLog[Max(RawOn(b, p))].type

\* "changed" then "deleted" on one path in one window came out as one "deleted".
C22_Witness ==
    \E b \in Emitted :
        \E p \in WatchedPaths :
            /\ Cardinality(RawOn(b, p)) = 2
            /\ \E k \in RawOn(b, p) : rawLog[k].type = "changed"
            /\ \E k \in FiredOn(b, p) : fireLog[k].type = "deleted"

PendingPaths == {pendingChanges[k].relativePath : k \in 1..Len(pendingChanges)}

\* C23: at most one debounce timer is armed, and it is the one set by the
\* last accepted raw event, due debounceMs after it; a batch is emitted
\* exactly debounceMs after the last accepted event of its window, holds one
\* event per distinct pending path, and leaves the pending map empty.
C23_Debounce ==
    /\ Cardinality(timers) <= 1
    /\ \A t \in timers :
          /\ debounceTimer = <<t.id>>
          /\ RawIn(flushes + 1) # {}
          /\ t.id = Max(RawIn(flushes + 1))
          /\ t.due = rawLog[t.id].at + debounceMs
    /\ \A b \in Emitted :
          /\ \A k \in FiredIn(b) : fireLog[k].at = rawLog[Max(RawIn(b))].at + debounceMs
          /\ Cardinality(FiredIn(b)) =
                Cardinality({rawLog[k].relativePath : k \in RawIn(b)})
    /\ PendingPaths = {rawLog[k].relativePath : k \in RawIn(flushes + 1)}
    /\ Len(pendingChanges) = Cardinality(PendingPaths)

\* A batch of two paths whose raw events came at different times: the
\* second event re-armed the timer of the first.
C23_Witness ==
    \E b \in Emitted :
        /\ Cardinality(FiredIn(b)) = 2
        /\ \E j, k \in RawIn(b) : rawLog[j].at < rawLog[k].at
        /\ pendingChanges = <<>> /\ timers = {}

RECURSIVE Segments(_, _, _)
Segments(path, i, cur) ==
    IF i > Len(path) THEN <<cur>>
    ELSE IF path[i] = "/" THEN <<cur>> \o Segments(path, i + 1, <<>>)
    ELSE Segments(path, i + 1, Append(cur, path[i]))

\* The directories the ignore list names: '**/<dir>/**'
IgnoredDirectories == {SubSeq(ignore[k], 4, Len(ignore[k]) - 3) : k \in 1..Len(ignore)}

\* The path lies in an ignored directory, at any depth.
UnderIgnoredDirectory(path) ==
    LET segs == Segments(path, 1, <<>>)
    IN \E k \in 1..(Len(segs) - 1) : segs[k] \in IgnoredDirectories

\* C24 (as stated): a raw event whose path lies in a directory of the ignore
\* list, at any depth and also directly under the workspace root, is never
\* put in the pending map, never arms the timer and is never emitted.
C24_AsStated ==
    /\ \A p \in PendingPaths : ~UnderIgnoredDirectory(p)
    /\ \A k \in 1..Len(fireLog) : ~UnderIgnoredDirectory(fireLog[k].relativePath)
    /\ \A t \in timers : ~UnderIgnoredDirectory(rawLog[t.id].relativePath)

\* The n-th raw event was accepted; an event was emitted for its path and window.
Accepted(n) == Len(rawLog) >= n /\ ~rawLog[n].ignored
EmittedFor(n) ==
    /\ Len(rawLog) >= n
    /\ \E k \in 1..Len(fireLog) :
          /\ fireLog[k].relativePath = rawLog[n].relativePath
          /\ fireLog[k].batch = rawLog[n].batch

\* C29: whenever changes are pending a debounce timer is armed, and the path
\* of every accepted raw event is emitted for the window the event arrived
\* in, once no further raw event re-arms the timer.
C29_PendingHasTimer ==
    /\ [](pendingChanges # <<>> => timers # {})
    /\ \A n \in 1..MaxRawEvents : Accepted(n) ~> EmittedFor(n)

\* A change is still pending debounceMs after it was accepted, because a
\* later event re-armed the timer.
C29_Witness ==
    /\ pendingChanges # <<>>
    /\ \E k \in RawIn(flushes + 1) : now >= rawLog[k].at + debounceMs
    /\ \E t \in timers : now < t.due

\* ------------------------------------------------------------------------
\* Properties of the creation of the .specify directory (C25)
\* ------------------------------------------------------------------------
Synthetic == {k \in 1..Len(fireLog) : fireLog[k].synthetic}
SyntheticBy(w) == {k \in Synthetic : fireLog[k].by = w.id}
HandlersOf(w) == {i \in pendingStats : i.kind = "creation" /\ i.by = w.id}

\* C25 (as stated): the first observed creation of .specify registers the
\* subtree watches and emits exactly one synthetic 'created' event.
C25_AsStated ==
    /\ Cardinality(Synthetic) <= 1
    /\ Synthetic # {} => LiveWatchers("subtree") # {}

\* C25 (as amended): the watcher holds one kind of watch at a time, a single
\* creation watch or the subtree watches registered once; a creation watch
\* that observed a creation is disposed and its handler, after it has checked
\* the directory again, emits exactly one 'created' event for '.specify' and
\* registers the subtree watches if the directory is still there, a new
\* creation watch if it is not; once the subtree watches are registered no
\* creation watch and no handler is left.
C25_RootCreation ==
    /\ [](/\ Cardinality(LiveWatchers("creation") \cup LiveWatchers("subtree")) <= 1
          /\ LiveWatchers("subtree") # {} => pendingStats = {}
          /\ \A k \in Synthetic :
                fireLog[k].type = "created" /\ fireLog[k].relativePath = SpecifyDir
          /\ \A w \in watchers :
                w.kind = "creation" =>
                   IF w.live
                   THEN SyntheticBy(w) = {} /\ HandlersOf(w) = {}
                   ELSE Cardinality(SyntheticBy(w)) + Cardinality(HandlersOf(w)) = 1)
    /\ [][\A i \in pendingStats :
             (i.kind = "creation" /\ i \notin pendingStats') =>
                /\ Len(fireLog') = Len(fireLog) + 1
                /\ fireLog'[Len(fireLog')].synthetic /\ fireLog'[Len(fireLog')].by = i.by
                /\ IF i.root \in rootDirs
                   THEN LiveWatchers("subtree")' # {} /\ LiveWatchers("creation")' = {}
                   ELSE LiveWatchers("subtree")' = {} /\ LiveWatchers("creation")' # {}]_vars

\* The directory was missing at initialization, was created (one event, the
\* subtree watches), removed and created again: still one event and one
\* registration.
C25_Witness ==
    /\ rootChanges = 3 /\ "/ws" \in rootDirs
    /\ Cardinality(Synthetic) = 1
    /\ Cardinality(LiveWatchers("subtree")) = 1
    /\ \E w \in watchers : w.kind = "creation" /\ ~w.live
    /\ pendingStats = {}

\* ------------------------------------------------------------------------
\* Properties of dispose() and restart() (C26, C27)
\* ------------------------------------------------------------------------
\* C26 (as stated): once dispose() has run no debounce timer is armed, the
\* pending map is empty, no watch is registered and no event reaches a
\* listener, whatever was in flight when dispose() was called.
C26_AsStated ==
    disposed # <<>> =>
        /\ timers = {}
        /\ pendingChanges = <<>>
        /\ LiveWatchers("creation") \cup LiveWatchers("subtree") = {}
        /\ \A k \in (disposed[1] + 1)..Len(fireLog) : fireLog[k].to = {}

\* C27 (as stated): once the initialization of a restart() has completed the
\* watches of the current workspace root are registered, and the events
\* emitted from then on reach the listeners subscribed before the restart.
C27_AsStated ==
    /\ (restarts > 0 /\ pendingStats = {} /\ disposed = <<>>) =>
          /\ LiveWatchers("creation") \cup LiveWatchers("subtree") # {}
          /\ \A w \in watchers : w.live => w.root = wsFolder
    /\ \A k \in 1..Len(fireLog) :
          \A sub \in subscribers :
              sub.restarts < fireLog[k].restarts => sub.listener \in fireLog[k].to

\* ------------------------------------------------------------------------
\* Properties of the watcher and the status cache together (C21)
\* ------------------------------------------------------------------------
\* C21 (as stated): after the watcher has emitted a change event, the next
\* getProjectStatus recomputes: no call returns from the cache unless a call
\* has stored a status since the emission.
C21_AsStated ==
    \A f \in 1..Len(fireLog) :
        \A k \in (fireLog[f].statusDone + 1)..Len(statusLog) :
            statusLog[k].how = "cache" =>
                \E j \in (fireLog[f].statusDone + 1)..(k - 1) : statusLog[j].how # "cache"

====
